---------------------------- MODULE Spec2Model ----------------------------
(***************************************************************************)
(* Model of the distributed simulation client of mouse_locomotion          *)
(* (src/src/simulations/clients/client.py).                                *)
(*                                                                         *)
(* Three kinds of threads share the Client object:                         *)
(*   main  the caller's thread: start(), stop(), simulate()                *)
(*   run   the background dispatch loop Client.run                         *)
(*   cb    one servicing thread per RPC connection, which runs the         *)
(*         completion callback Client.response_simulation                  *)
(* The RPC library is the environment: an asynchronous call completes,     *)
(* completes with an error, or expires; discovery reports any non-empty    *)
(* set of servers or fails.                                                *)
(*                                                                         *)
(* Python list positions are 0-based; the sequences here are 1-based, so   *)
(* position k of self.rsp is rsp[k + 1].                                   *)
(***************************************************************************)
EXTENDS Integers, Sequences, FiniteSets, TLC

\* ------------------------------------------------------------------ bounds
NumServers == 2
MaxBatch == 2
MaxBatches == 2
MaxCalls == 2
MaxStarts == 1
MaxUnitThreads == 2
NumUnitServers == 3
MaxUnitCalls == 2
MaxResList == 3
MaxResSize == 1
NumObjects == 3

Servers == 1..NumServers

\* ------------------------------------------------------------------ values
\* the empty placeholder {} of the response list
Empty == [batch |-> 0, index |-> -1]
\* thread identities as lock holders: 0 free, a positive number h the
\* servicing thread of call h
Free == 0
MainT == -1
LockNames == {"cloud_state", "conn_list", "rsp", "rqt", "res"}

VARIABLES
    rqt,            \* self.rqt: pending requests, last element dispatched first
    rsp,            \* self.rsp: response list
    cloud_state,    \* self.cloud_state: server id -> [status, nb_threads]
    server_list,    \* self.server_list: servers reported by the last discovery
    conn_list,      \* self.conn_list: sequence of Connexion
    rqt_n,          \* self.rqt_n
    mng_stop,       \* self.mng_stop
    reg_found,      \* self.reg_found
    terminated,     \* self.terminated
    interrupted,    \* self.interrupted
    server_dispo,   \* self.server_dispo
    results,        \* self.results: server id -> in-flight requests
    mutex,          \* the five Lock objects: name -> holder
    calls,          \* the AsyncResult objects created so far
    pcMain,         \* position of the caller's thread
    simLocal,       \* locals of simulate: sim_n, k, simulation_running, to_over, quiet
    ret,            \* what the last simulate call returned
    batches,        \* number of batches accepted so far
    pcRun,          \* position of the dispatch thread
    server_hash,    \* local of run
    starts,         \* number of start() calls
    pcCb,           \* position of each call's servicing thread
    unitOp,         \* SpecUnit: the method applied last and the state it was applied to
    interruption,   \* Optimization.interruption
    res_list,       \* Optimization.res_list
    kwargs,         \* the keyword arguments of the notification being handled or built
    optOp,          \* SpecOpt: the Optimization method applied last
    objects,        \* SpecOpt: the objects the notifier passes as res
    scene,          \* the host world: the objects of BlenderUtils.scene
    body,           \* the Body object: its fields, its four legs, its brain
    bodyOp,         \* SpecBody: the Body method applied last and what it did
    fiber,          \* a Fiber object: its class and its fields
    fiberOp,        \* SpecFiber: the Fiber method applied last and what it did
    osc,            \* a ParallelOscillator object: neurons, state, save, rec
    oscOp           \* SpecOsc: the steps of the last ParallelOscillator.update

clientVars == <<rqt, rsp, cloud_state, server_list, conn_list, rqt_n, mng_stop,
                reg_found, terminated, interrupted, server_dispo, results, mutex,
                calls, pcMain, simLocal, ret, batches, pcRun, server_hash, starts,
                pcCb, unitOp>>

optVars == <<interruption, res_list, kwargs, optOp, objects>>

bodyVars == <<scene, body, bodyOp>>

fiberVars == <<fiber, fiberOp>>

oscVars == <<osc, oscOp>>

\* the state of the single-threaded simulation tick path
tickVars == <<bodyVars, fiberVars, oscVars>>

vars == <<clientVars, optVars, tickVars>>

\* ------------------------------------------------------------------ helpers
Last(s) == s[Len(s)]
Front(s) == SubSeq(s, 1, Len(s) - 1)
RemoveAt(s, i) == SubSeq(s, 1, i - 1) \o SubSeq(s, i + 1, Len(s))
\* position of the first element of s satisfying P, 0 if none
FirstIndex(s, P(_)) ==
    IF \E i \in 1..Len(s) : P(s[i])
    THEN CHOOSE i \in 1..Len(s) : P(s[i]) /\ \A j \in 1..(i - 1) : ~P(s[j])
    ELSE 0
\* every ordering of a finite set, as sequences: the iteration orders of a dict
Orders(S) == {o \in [1..Cardinality(S) -> S] : \A i, j \in 1..Cardinality(S) : o[i] = o[j] => i = j}

\* ------------------------------------------------------------------ the RPC library
\* AsyncResult.expired / AsyncResult.error as check_sim reads them
Expired(c) == c.status = "expired"
Errored(c) == c.status = "error"
\* the value a completed call carries: the result of the request it was sent for
ResultOf(c) == [batch |-> c.batch, index |-> c.index]

\* ------------------------------------------------------------------ __refresh_cloud_state
\* the outcomes of rpyc.discover: a non-empty set of servers, or {} for a
\* DiscoveryError
\* disc is what rpyc.discover gave: a non-empty set of servers, or {} for a
\* DiscoveryError (discover raises it when it finds no server)
RefreshedServerList(disc, sl, rf) ==
    IF disc = {} THEN (IF rf THEN {} ELSE sl) ELSE disc

RefreshedRegFound(disc, sl, rf) ==
    LET rf1 == IF disc = {} THEN FALSE ELSE rf
    IN  IF RefreshedServerList(disc, sl, rf) # {} /\ ~rf1 THEN TRUE ELSE rf1

\* servers of the new list that the cloud state does not hold yet
NewServersNoQueueTest(sl, cs, queue) == sl \ DOMAIN cs

NewServers(sl, cs, queue) ==
    IF Len(queue) > 0 THEN sl \ DOMAIN cs ELSE {}

FreshServer == [status |-> TRUE, nb_threads |-> 0]

RefreshedCloudKeepGone(sl, cs, queue) ==
    [s \in DOMAIN cs \cup NewServers(sl, cs, queue) |->
        IF s \in DOMAIN cs THEN cs[s] ELSE FreshServer]

RefreshedCloud(sl, cs, queue) ==
    [s \in (DOMAIN cs \cap sl) \cup NewServers(sl, cs, queue) |->
        IF s \in DOMAIN cs THEN cs[s] ELSE FreshServer]

\* ------------------------------------------------------------------ __select_candidate
\* sorted(cloud_list, key=nb_threads): Python's sort is stable, so servers with
\* equal counts keep the dict's iteration order
InsertByThreads(s, x, cs) ==
    LET p == Cardinality({i \in 1..Len(s) : cs[s[i]].nb_threads <= cs[x].nb_threads})
    IN  SubSeq(s, 1, p) \o <<x>> \o SubSeq(s, p + 1, Len(s))

RECURSIVE SortedByThreads(_, _)
SortedByThreads(order, cs) ==
    IF order = <<>> THEN <<>>
    ELSE InsertByThreads(SortedByThreads(Front(order), cs), Last(order), cs)

CloudListUnsorted(order, cs) == order

CloudList(order, cs) ==
    IF Cardinality(DOMAIN cs) >= 2 THEN SortedByThreads(order, cs) ELSE order

\* the key of the first listed server whose status is available, else 0
FirstAvailable(order, cs) ==
    LET i == FirstIndex(order, LAMBDA s : cs[s].status)
    IN  IF i = 0 THEN 0 ELSE order[i]

\* order is the iteration order of the cloud_state dict
SelectCandidate(order, cs) == FirstAvailable(CloudList(order, cs), cs)

\* ------------------------------------------------------------------ check_sim
ClientState == [rqt |-> rqt, rqt_n |-> rqt_n, cloud_state |-> cloud_state,
                conn_list |-> conn_list, results |-> results]

IsBroken(sims, cl) ==
    \E i \in 1..Len(sims) : Expired(cl[sims[i].callback]) \/ Errored(cl[sims[i].callback])

\* simulation.callback = None; self.rqt.append(simulation.copy())
RequeuedKeepCallback(sims) == sims

Requeued(sims) == [i \in 1..Len(sims) |-> [sims[i] EXCEPT !.callback = 0]]

\* for connection in self.conn_list: if connection.server_id == server_hash:
\*     connection.connexion.close(); del connection; break
\* del connection unbinds the loop variable: the list keeps the Connexion
ClosedFirstOfAny(cl, s) ==
    IF cl = <<>> THEN cl ELSE [cl EXCEPT ![1].closed = TRUE]

ClosedFirst(cl, s) ==
    LET i == FirstIndex(cl, LAMBDA c : c.server_id = s)
    IN  IF i = 0 THEN cl ELSE [cl EXCEPT ![i].closed = TRUE]

DropKey(res, s) == [t \in DOMAIN res \ {s} |-> res[t]]

\* the body of check_sim's loop for one server of self.results
CheckSimServer(st, s, cl) ==
    IF ~IsBroken(st.results[s], cl) THEN st
    ELSE [rqt |-> st.rqt \o Requeued(st.results[s]),
          rqt_n |-> st.rqt_n + Len(st.results[s]),
          cloud_state |-> IF s \in DOMAIN st.cloud_state
                          THEN [st.cloud_state EXCEPT ![s].status = FALSE]
                          ELSE st.cloud_state,
          conn_list |-> IF s \in DOMAIN st.cloud_state
                        THEN ClosedFirst(st.conn_list, s)
                        ELSE st.conn_list,
          results |-> DropKey(st.results, s)]

\* order is the iteration order of self.results.items() (a list in Python 2)
RECURSIVE CheckSim(_, _, _)
CheckSim(st, order, cl) ==
    IF order = <<>> THEN st
    ELSE CheckSim(CheckSimServer(st, order[1], cl), SubSeq(order, 2, Len(order)), cl)

BrokenServers == {s \in DOMAIN results : IsBroken(results[s], calls)}

\* ------------------------------------------------------------------ Client.__init__
NoLocals == [sim_n |-> 0, k |-> 0, simulation_running |-> FALSE,
             to_over |-> FALSE, to_init_set |-> FALSE, quiet |-> FALSE]
NoReturn == [kind |-> "none", val |-> <<>>, clean |-> FALSE, sim_n |-> 0]

\* ------------------------------------------------------------------ Optimization.__init__
\* a keyword dictionary with at most the keys res and interruption; a value
\* is known by its type and, for res, the object it refers to, for
\* interruption, its truth
NoRes == [type |-> "none", obj |-> 0]
NoInterruption == [type |-> "none", val |-> FALSE]
NoKwargs == [has_res |-> FALSE, res |-> NoRes,
             has_interruption |-> FALSE, interruption |-> NoInterruption]
NoOptOp == [op |-> "none", interruption |-> FALSE, res_len |-> 0, ret |-> "None"]

\* self.interruption = False; self.res_list = []
InitOptimization ==
    /\ interruption = FALSE
    /\ res_list = <<>>
    /\ kwargs = NoKwargs
    /\ optOp = NoOptOp
    /\ objects = [o \in 1..NumObjects |-> [size |-> 0]]

\* ------------------------------------------------------------------ the tick path before construction
\* a rational number num / den, den > 0
Frac(n, d) == [num |-> n, den |-> d]
Zero == Frac(0, 1)
\* the value tanh(dist) * tanh(power) of the loss function, known by the two
\* arguments of tanh
NoLoss == [dist |-> Zero, power |-> Zero, set |-> FALSE]
NoBrain == [state |-> <<>>, n_iter |-> 0]
NoConfig == [dist_ref |-> 0, power_ref |-> 0, connection_matrix |-> <<>>]
NoScene == [objects |-> {}, position |-> <<0, 0>>]
NoBody == [status |-> "none", body_obj |-> "None", active |-> "unset",
           origin |-> <<0, 0>>, position |-> <<0, 0>>, dist |-> 0,
           powers |-> <<>>, av_power |-> Zero, loss_fct |-> NoLoss, n_iter |-> 0,
           legs |-> <<>>, muscles |-> <<>>, brain |-> NoBrain, config |-> NoConfig]
NoBodyOp == [op |-> "none", raised |-> "none", errors |-> 0, trace |-> <<>>,
             before |-> NoBody]

InitBody ==
    /\ scene = NoScene
    /\ body = NoBody
    /\ bodyOp = NoBodyOp

\* A float of the fiber model that is the result of pow or exp, or depends
\* on one, is kept as the expression that computes it: an operation and its
\* arguments; a known number is the expression "val" of a rational.
T(op, args) == [op |-> op, args |-> args]
Val(n, d) == T("val", <<Frac(n, d)>>)
Absent == T("absent", <<>>)
NoFiber == [cls |-> "none", h |-> Absent, f_pcsa |-> 0, f_05 |-> 0,
            length |-> Absent, max_length |-> Absent, velocity |-> Absent,
            f_min |-> 0, f_max |-> 0, f_env |-> Zero, u_th |-> 0,
            tf |-> Absent, f_int |-> Absent, f_eff |-> Absent, nf |-> Absent,
            activation_frequency |-> Absent, yielding |-> Absent, sag |-> Absent,
            n_iter |-> 0]
NoCall == [made |-> FALSE, spike_frequency |-> 0, f_env |-> Zero]
NoFiberOp == [op |-> "none", raised |-> "none", specific |-> Absent,
              call |-> NoCall, prev |-> NoCall, before |-> NoFiber]

InitFiber ==
    /\ fiber = NoFiber
    /\ fiberOp = NoFiberOp

NoOsc == [status |-> "none", save |-> FALSE, neurons |-> <<>>, rec |-> <<>>,
          state |-> <<>>, n_iter |-> 0]
NoOscOp == [op |-> "none", trace |-> <<>>]

InitOsc ==
    /\ osc = NoOsc
    /\ oscOp = NoOscOp

InitTick == InitBody /\ InitFiber /\ InitOsc

NoOp == [op |-> "none", rqt |-> <<>>, cloud_state |-> <<>>, results |-> <<>>,
         conn_list |-> <<>>, disc |-> {}]

Init ==
    /\ rqt = <<>>
    /\ rsp = <<>>
    /\ cloud_state = <<>>
    /\ server_list = {}
    /\ conn_list = <<>>
    /\ rqt_n = 0
    /\ mng_stop = FALSE
    /\ reg_found = TRUE
    /\ terminated = FALSE
    /\ interrupted = FALSE
    /\ server_dispo = FALSE
    /\ results = <<>>
    /\ mutex = [l \in LockNames |-> Free]
    /\ calls = <<>>
    /\ pcMain = "idle"
    /\ simLocal = NoLocals
    /\ ret = NoReturn
    /\ batches = 0
    /\ pcRun = "none"
    /\ server_hash = 0
    /\ starts = 0
    /\ pcCb = <<>>
    /\ unitOp = NoOp
    /\ InitOptimization
    /\ InitTick

\* the dispatch thread exists and has not finished (Thread.is_alive)
ThreadAlive == pcRun \notin {"none", "done", "dead"}

\* ------------------------------------------------------------------ the caller's thread
\* Client.start
Start ==
    /\ pcMain = "idle"
    /\ ~ThreadAlive
    /\ starts < MaxStarts
    /\ starts' = starts + 1
    /\ terminated' = FALSE
    /\ mng_stop' = FALSE
    /\ pcRun' = "loop"
    /\ UNCHANGED <<rqt, rsp, cloud_state, server_list, conn_list, rqt_n, reg_found,
                   interrupted, server_dispo, results, mutex, calls, pcMain,
                   simLocal, ret, batches, server_hash, pcCb,
                   unitOp, optVars, tickVars>>

\* Client.stop: set the flag, then join the thread if it is alive
Stop ==
    /\ pcMain = "idle"
    /\ starts > 0
    /\ ~mng_stop
    /\ mng_stop' = TRUE
    /\ pcMain' = IF ThreadAlive THEN "join_stop" ELSE "idle"
    /\ UNCHANGED <<rqt, rsp, cloud_state, server_list, conn_list, rqt_n, reg_found,
                   terminated, interrupted, server_dispo, results, mutex, calls,
                   simLocal, ret, batches, pcRun, server_hash, starts, pcCb,
                   unitOp, optVars, tickVars>>

StopJoined ==
    /\ pcMain = "join_stop"
    /\ ~ThreadAlive
    /\ pcMain' = "idle"
    /\ UNCHANGED <<rqt, rsp, cloud_state, server_list, conn_list, rqt_n, mng_stop,
                   reg_found, terminated, interrupted, server_dispo, results, mutex,
                   calls, simLocal, ret, batches, pcRun, server_hash, starts, pcCb,
                   unitOp, optVars, tickVars>>

\* Client.simulate, the else branch: the request list is not empty
SimulateRejected ==
    /\ pcMain = "idle"
    /\ starts > 0
    /\ rqt # <<>>
    /\ ret.kind # "rejected"
    /\ ret' = [NoReturn EXCEPT !.kind = "rejected"]
    /\ UNCHANGED <<rqt, rsp, cloud_state, server_list, conn_list, rqt_n, mng_stop,
                   reg_found, terminated, interrupted, server_dispo, results, mutex,
                   calls, pcMain, simLocal, batches, pcRun, server_hash, starts, pcCb,
                   unitOp, optVars, tickVars>>

\* no request is tracked in self.results (a server's list may be left empty)
NothingInFlight == \A s \in DOMAIN results : results[s] = <<>>

SimulateAcceptedNested(n, maxBatches) ==
    /\ pcMain = "idle"
    /\ starts > 0
    /\ batches < maxBatches
    /\ rqt = <<>>
    /\ mutex["rqt"] = Free
    /\ mutex["rsp"] = Free
    /\ mutex' = [mutex EXCEPT !["rqt"] = MainT, !["rsp"] = MainT]
    /\ batches' = batches + 1
    /\ simLocal' = [NoLocals EXCEPT !.sim_n = n, !.quiet = NothingInFlight]
    /\ ret' = NoReturn
    /\ pcMain' = "append"
    /\ UNCHANGED <<rqt, rsp, cloud_state, server_list, conn_list, rqt_n, mng_stop,
                   reg_found, terminated, interrupted, server_dispo, results, calls,
                   pcRun, server_hash, starts, pcCb,
                   unitOp, optVars, tickVars>>

\* Client.simulate(sim_list) with len(sim_list) = n: the test of self.rqt and
\* self.mutex_rqt.acquire(); simLocal.quiet records that nothing was in flight
\* when the call was made
SimulateAccepted(n, maxBatches) ==
    /\ pcMain = "idle"
    /\ starts > 0
    /\ batches < maxBatches
    /\ rqt = <<>>
    /\ mutex["rqt"] = Free
    /\ mutex' = [mutex EXCEPT !["rqt"] = MainT]
    /\ batches' = batches + 1
    /\ simLocal' = [NoLocals EXCEPT !.sim_n = n, !.quiet = NothingInFlight]
    /\ ret' = NoReturn
    /\ pcMain' = "append"
    /\ UNCHANGED <<rqt, rsp, cloud_state, server_list, conn_list, rqt_n, mng_stop,
                   reg_found, terminated, interrupted, server_dispo, results, calls,
                   pcRun, server_hash, starts, pcCb,
                   unitOp, optVars, tickVars>>

NewRequest(b, k) == [batch |-> b, index |-> k, callback |-> 0]

\* one turn of: for k, v in enumerate(sim_list): self.rqt.append(SimulationRequest(v, k))
SimAppend ==
    /\ pcMain = "append"
    /\ simLocal.k < simLocal.sim_n
    /\ rqt' = Append(rqt, NewRequest(batches, simLocal.k))
    /\ simLocal' = [simLocal EXCEPT !.k = @ + 1]
    /\ UNCHANGED <<rsp, cloud_state, server_list, conn_list, rqt_n, mng_stop,
                   reg_found, terminated, interrupted, server_dispo, results, mutex,
                   calls, pcMain, ret, batches, pcRun, server_hash, starts, pcCb,
                   unitOp, optVars, tickVars>>

SimEnqueuedUncounted ==
    /\ pcMain = "append"
    /\ simLocal.k = simLocal.sim_n
    /\ mutex' = [mutex EXCEPT !["rqt"] = Free]
    /\ pcMain' = "fill"
    /\ UNCHANGED <<rqt, rsp, cloud_state, server_list, conn_list, rqt_n, mng_stop,
                   reg_found, terminated, interrupted, server_dispo, results, calls,
                   simLocal, ret, batches, pcRun, server_hash, starts, pcCb,
                   unitOp, optVars, tickVars>>

\* self.rqt_n += sim_n; self.mutex_rqt.release()
SimEnqueued ==
    /\ pcMain = "append"
    /\ simLocal.k = simLocal.sim_n
    /\ rqt_n' = rqt_n + simLocal.sim_n
    /\ mutex' = [mutex EXCEPT !["rqt"] = Free]
    /\ pcMain' = "fill"
    /\ UNCHANGED <<rqt, rsp, cloud_state, server_list, conn_list, mng_stop,
                   reg_found, terminated, interrupted, server_dispo, results, calls,
                   simLocal, ret, batches, pcRun, server_hash, starts, pcCb,
                   unitOp, optVars, tickVars>>

PlaceholdersFor(n, counter) == [i \in 1..counter |-> Empty]

\* self.rsp = list(); for i in range(self.rqt_n): self.rsp.append({})
\* under mutex_rsp; then simulation_running = True and time.sleep(1)
SimFill ==
    /\ pcMain = "fill"
    /\ mutex["rsp"] = Free
    /\ rsp' = PlaceholdersFor(simLocal.sim_n, rqt_n)
    /\ simLocal' = [simLocal EXCEPT !.simulation_running = TRUE]
    /\ pcMain' = "test"
    /\ UNCHANGED <<rqt, cloud_state, server_list, conn_list, rqt_n, mng_stop,
                   reg_found, terminated, interrupted, server_dispo, results, mutex,
                   calls, ret, batches, pcRun, server_hash, starts, pcCb,
                   unitOp, optVars, tickVars>>

\* while (self.rqt or simulation_running) and not self.terminated and to < self.interrupt_to
LoopCondition(queue, running, term, over) ==
    (queue # <<>> \/ running) /\ ~term /\ ~over

SimContinue ==
    /\ pcMain = "test"
    /\ LoopCondition(rqt, simLocal.simulation_running, terminated, simLocal.to_over)
    /\ pcMain' = "scan"
    /\ UNCHANGED <<rqt, rsp, cloud_state, server_list, conn_list, rqt_n, mng_stop,
                   reg_found, terminated, interrupted, server_dispo, results, mutex,
                   calls, simLocal, ret, batches, pcRun, server_hash, starts, pcCb,
                   unitOp, optVars, tickVars>>

\* return self.rsp
SimReturn ==
    /\ pcMain = "test"
    /\ ~LoopCondition(rqt, simLocal.simulation_running, terminated, simLocal.to_over)
    /\ ret' = [kind |-> "list", val |-> rsp, clean |-> ~interrupted /\ ~terminated,
               sim_n |-> simLocal.sim_n]
    /\ simLocal' = NoLocals
    /\ pcMain' = "idle"
    /\ UNCHANGED <<rqt, rsp, cloud_state, server_list, conn_list, rqt_n, mng_stop,
                   reg_found, terminated, interrupted, server_dispo, results, mutex,
                   calls, batches, pcRun, server_hash, starts, pcCb,
                   unitOp, optVars, tickVars>>

\* for result in self.results.values(): if len(result) != 0: simulation_running = True
SimulationRunningAnyServer(res) == DOMAIN res # {}

SimulationRunning(res) == \E s \in DOMAIN res : Len(res[s]) # 0

\* the body of the poll loop: the scan of self.results, to = time.time() - to_init
\* when interrupted (to_init is 0 until this call saw an interrupt, so to is
\* then far above interrupt_to), and a time.sleep(self.sim_prun_t) that
\* either ends normally (int = FALSE) or raises KeyboardInterrupt: then
\* notify_observers(interruption=True) and self.stop() begin
SimPoll(int) ==
    /\ pcMain = "scan"
    /\ \E over \in BOOLEAN :
        /\ interrupted \/ ~over
        /\ (interrupted /\ ~simLocal.to_init_set) => over
        /\ simLocal' = [simLocal EXCEPT !.simulation_running = SimulationRunning(results),
                                        !.to_over = over]
    /\ IF int
       THEN /\ ~interrupted
            /\ mng_stop' = TRUE
            /\ pcMain' = "join_int"
       ELSE /\ pcMain' = "test"
            /\ UNCHANGED mng_stop
    /\ UNCHANGED <<rqt, rsp, cloud_state, server_list, conn_list, rqt_n,
                   reg_found, terminated, interrupted, server_dispo, results, mutex,
                   calls, ret, batches, pcRun, server_hash, starts, pcCb,
                   unitOp, optVars, tickVars>>

\* the end of self.stop() in the interrupt handler (thread.join() returned),
\* to_init = time.time(), self.interrupted = True
SimInterrupted ==
    /\ pcMain = "join_int"
    /\ ~ThreadAlive
    /\ interrupted' = TRUE
    /\ simLocal' = [simLocal EXCEPT !.to_init_set = TRUE]
    /\ pcMain' = "test"
    /\ UNCHANGED <<rqt, rsp, cloud_state, server_list, conn_list, rqt_n, mng_stop,
                   reg_found, terminated, server_dispo, results, mutex,
                   calls, ret, batches, pcRun, server_hash, starts, pcCb,
                   unitOp, optVars, tickVars>>

\* ------------------------------------------------------------------ the dispatch thread
\* Client.run: the loop test fails, self.terminated = True
RunExit ==
    /\ pcRun = "loop"
    /\ mng_stop
    /\ terminated' = TRUE
    /\ pcRun' = "done"
    /\ UNCHANGED <<rqt, rsp, cloud_state, server_list, conn_list, rqt_n, mng_stop,
                   reg_found, interrupted, server_dispo, results, mutex, calls,
                   pcMain, simLocal, ret, batches, server_hash, starts, pcCb,
                   unitOp, optVars, tickVars>>

\* while not self.mng_stop: if self.rqt: (an empty list sleeps and tests
\* again), then __select_candidate's first part, self.__refresh_cloud_state()
RunRefresh(discoveries) ==
    /\ pcRun = "loop"
    /\ ~mng_stop
    /\ rqt # <<>>
    /\ \E disc \in discoveries :
        LET sl == RefreshedServerList(disc, server_list, reg_found)
        IN  /\ server_list' = sl
            /\ reg_found' = RefreshedRegFound(disc, server_list, reg_found)
            /\ cloud_state' = RefreshedCloud(sl, cloud_state, rqt)
    /\ (cloud_state' # cloud_state) => mutex["cloud_state"] = Free
    /\ pcRun' = "check"
    /\ UNCHANGED <<rqt, rsp, conn_list, rqt_n, mng_stop, terminated, interrupted,
                   server_dispo, results, mutex, calls, pcMain, simLocal, ret,
                   batches, server_hash, starts, pcCb,
                   unitOp, optVars, tickVars>>

\* the rest of __select_candidate: self.check_sim(), then the choice under
\* mutex_cloud_state; in run: if server_hash != 0 ... else ... sleep.
\* resOrder and cloudOrder are the iteration orders of the two dicts.
\* (A lock that is never released blocks the whole step.)
RunSelect ==
    /\ pcRun = "check"
    /\ mutex["cloud_state"] = Free
    /\ BrokenServers # {} =>
        /\ mutex["rqt"] = Free
        /\ mutex["res"] = Free
        /\ mutex["conn_list"] = Free
    /\ \E resOrder \in Orders(DOMAIN results) :
        LET st == CheckSim(ClientState, resOrder, calls)
        IN  /\ rqt' = st.rqt
            /\ rqt_n' = st.rqt_n
            /\ cloud_state' = st.cloud_state
            /\ conn_list' = st.conn_list
            /\ results' = st.results
            /\ \E cloudOrder \in Orders(DOMAIN st.cloud_state) :
                 server_hash' = SelectCandidate(cloudOrder, st.cloud_state)
    /\ server_dispo' = (server_hash' # 0)
    /\ pcRun' = IF server_hash' # 0 THEN "request" ELSE "loop"
    /\ UNCHANGED <<rsp, server_list, mng_stop, reg_found, terminated, interrupted,
                   mutex, calls, pcMain, simLocal, ret, batches, starts, pcCb,
                   unitOp, optVars, tickVars>>

NewConnexion(s, h) == [server_id |-> s, call |-> h, closed |-> FALSE]
NewCall(s, r, st) == [status |-> st, server |-> s, batch |-> r.batch, index |-> r.index]

\* request_server: rpyc.connect or BgServingThread raises; request_server
\* raises Exception and run re-raises it: the thread ends
RequestConnectFails ==
    /\ pcRun = "request"
    /\ pcRun' = "dead"
    /\ UNCHANGED <<rqt, rsp, cloud_state, server_list, conn_list, rqt_n, mng_stop,
                   reg_found, terminated, interrupted, server_dispo, results, mutex,
                   calls, pcMain, simLocal, ret, batches, server_hash, starts, pcCb,
                   unitOp, optVars, tickVars>>

RequestEOFPops(maxCalls) ==
    /\ pcRun = "request"
    /\ Len(calls) < maxCalls
    /\ mutex["conn_list"] = Free
    /\ calls' = Append(calls, NewCall(server_hash, Last(rqt), "eof"))
    /\ pcCb' = Append(pcCb, "done")
    /\ conn_list' = Append(conn_list, NewConnexion(server_hash, Len(calls) + 1))
    /\ server_dispo' = FALSE
    /\ rqt' = Front(rqt)
    /\ rqt_n' = rqt_n - 1
    /\ pcRun' = "loop"
    /\ UNCHANGED <<rsp, cloud_state, server_list, mng_stop,
                   reg_found, terminated, interrupted, results, mutex,
                   pcMain, simLocal, ret, batches, server_hash, starts,
                   unitOp, optVars, tickVars>>

\* request_server: the Connexion is registered, then conn.root raises EOFError
\* (the peer closed the stream); run logs, sleeps 5 s, self.server_dispo = False
RequestEOF(maxCalls) ==
    /\ pcRun = "request"
    /\ Len(calls) < maxCalls
    /\ mutex["conn_list"] = Free
    /\ calls' = Append(calls, NewCall(server_hash, Last(rqt), "eof"))
    /\ pcCb' = Append(pcCb, "done")
    /\ conn_list' = Append(conn_list, NewConnexion(server_hash, Len(calls) + 1))
    /\ server_dispo' = FALSE
    /\ pcRun' = "loop"
    /\ UNCHANGED <<rqt, rsp, cloud_state, server_list, rqt_n, mng_stop,
                   reg_found, terminated, interrupted, results, mutex,
                   pcMain, simLocal, ret, batches, server_hash, starts,
                   unitOp, optVars, tickVars>>

\* request_server: the Connexion is registered, the asynchronous call raises;
\* conn.close(), request_server raises Exception and run re-raises it
RequestIssueFails(maxCalls) ==
    /\ pcRun = "request"
    /\ Len(calls) < maxCalls
    /\ mutex["conn_list"] = Free
    /\ calls' = Append(calls, NewCall(server_hash, Last(rqt), "failed"))
    /\ pcCb' = Append(pcCb, "done")
    /\ conn_list' = Append(conn_list,
                           [NewConnexion(server_hash, Len(calls) + 1) EXCEPT !.closed = TRUE])
    /\ pcRun' = "dead"
    /\ UNCHANGED <<rqt, rsp, cloud_state, server_list, rqt_n, mng_stop, reg_found,
                   terminated, interrupted, server_dispo, results, mutex,
                   pcMain, simLocal, ret, batches, server_hash, starts,
                   unitOp, optVars, tickVars>>

\* if server_id not in self.results: self.results[server_id] = []
\* self.results[server_id].append(rqt)
Tracked(res, s, r) ==
    [t \in DOMAIN res \cup {s} |->
        IF t = s THEN (IF s \in DOMAIN res THEN Append(res[s], r) ELSE <<r>>)
        ELSE res[t]]

\* request_server(server_hash, self.cloud_state[server_hash], self.rqt[-1], "Simulation")
\* without an exception: the Connexion is registered, the call is issued with
\* its expiry and callback, rqt.callback = res, and the request (the object
\* that is still the last of self.rqt) is added to self.results
RequestSent(maxCalls) ==
    /\ pcRun = "request"
    /\ Len(calls) < maxCalls
    /\ mutex["conn_list"] = Free
    /\ mutex["res"] = Free
    /\ LET h == Len(calls) + 1
           r == [Last(rqt) EXCEPT !.callback = h]
       IN  /\ calls' = Append(calls, NewCall(server_hash, r, "pending"))
           /\ pcCb' = Append(pcCb, "idle")
           /\ conn_list' = Append(conn_list, NewConnexion(server_hash, h))
           /\ rqt' = [rqt EXCEPT ![Len(rqt)] = r]
           /\ results' = Tracked(results, server_hash, r)
    /\ pcRun' = "update"
    /\ UNCHANGED <<rsp, cloud_state, server_list, rqt_n, mng_stop, reg_found,
                   terminated, interrupted, server_dispo, mutex,
                   pcMain, simLocal, ret, batches, server_hash, starts,
                   unitOp, optVars, tickVars>>

ThreadsAfterDispatch(n) == n + 1

\* if self.server_dispo: self.cloud_state[server_hash].nb_threads += 1 under
\* mutex_cloud_state; self.rqt.pop(); self.rqt_n -= 1 under mutex_rqt
RunPopUnlocked ==
    /\ pcRun = "update"
    /\ mutex["cloud_state"] = Free
    /\ cloud_state' = [cloud_state EXCEPT
                          ![server_hash].nb_threads = ThreadsAfterDispatch(@)]
    /\ rqt' = Front(rqt)
    /\ rqt_n' = rqt_n - 1
    /\ pcRun' = "loop"
    /\ UNCHANGED <<rsp, server_list, conn_list, mng_stop, reg_found,
                   terminated, interrupted, server_dispo, results, mutex, calls,
                   pcMain, simLocal, ret, batches, server_hash, starts, pcCb,
                   unitOp, optVars, tickVars>>

RunPop ==
    /\ pcRun = "update"
    /\ mutex["cloud_state"] = Free
    /\ mutex["rqt"] = Free
    /\ cloud_state' = [cloud_state EXCEPT
                          ![server_hash].nb_threads = ThreadsAfterDispatch(@)]
    /\ rqt' = Front(rqt)
    /\ rqt_n' = rqt_n - 1
    /\ pcRun' = "loop"
    /\ UNCHANGED <<rsp, server_list, conn_list, mng_stop, reg_found,
                   terminated, interrupted, server_dispo, results, mutex, calls,
                   pcMain, simLocal, ret, batches, server_hash, starts, pcCb,
                   unitOp, optVars, tickVars>>

\* ------------------------------------------------------------------ the servicing threads
CallIds == 1..Len(calls)

\* the Connexion of call h is registered and its stream is open
ConnOpen(h) == \E i \in 1..Len(conn_list) : conn_list[i].call = h /\ ~conn_list[i].closed

\* the call's expiry passes before a reply: AsyncResult.expired becomes true
Expire(h) ==
    /\ calls[h].status = "pending"
    /\ calls' = [calls EXCEPT ![h].status = "expired"]
    /\ UNCHANGED <<rqt, rsp, cloud_state, server_list, conn_list, rqt_n, mng_stop,
                   reg_found, terminated, interrupted, server_dispo, results, mutex,
                   pcMain, simLocal, ret, batches, pcRun, server_hash, starts, pcCb,
                   unitOp, optVars, tickVars>>

\* the server replies with an exception: __process_callback takes its else
\* branch and only logs
ReplyError(h) ==
    /\ calls[h].status = "pending"
    /\ ConnOpen(h)
    /\ calls' = [calls EXCEPT ![h].status = "error"]
    /\ pcCb' = [pcCb EXCEPT ![h] = "done"]
    /\ UNCHANGED <<rqt, rsp, cloud_state, server_list, conn_list, rqt_n, mng_stop,
                   reg_found, terminated, interrupted, server_dispo, results, mutex,
                   pcMain, simLocal, ret, batches, pcRun, server_hash, starts,
                   unitOp, optVars, tickVars>>

\* the position in self.results[server_id] of the simulation whose callback is
\* this response, 0 if none
Matching(sims, h) == FirstIndex(sims, LAMBDA r : r.callback = h)

\* self.rsp[simulation.index]
StoredAtFirst(r) == 1

StoredAt(r) == r.index + 1

\* the server replies with a result: __process_callback finds the Connexion
\* and, when the server is still in cloud_state, runs the first part of
\* response_simulation's function: the store into self.rsp under mutex_rsp
\* and notify_observers.  self.results[server_id] raises KeyError when
\* check_sim has deleted the entry; self.rsp[simulation.index] raises
\* IndexError, with mutex_rsp held, when the list is too short.
Reply(h) ==
    /\ calls[h].status = "pending"
    /\ pcCb[h] = "idle"
    /\ ConnOpen(h)
    /\ calls' = [calls EXCEPT ![h].status = "ready"]
    /\ LET s == calls[h].server
       IN  IF s \notin DOMAIN cloud_state
           THEN /\ pcCb' = [pcCb EXCEPT ![h] = "close"]
                /\ UNCHANGED <<rsp, mutex>>
           ELSE IF s \notin DOMAIN results
           THEN /\ pcCb' = [pcCb EXCEPT ![h] = "dead"]
                /\ UNCHANGED <<rsp, mutex>>
           ELSE LET i == Matching(results[s], h)
                IN  IF i = 0
                    THEN /\ pcCb' = [pcCb EXCEPT ![h] = "dec"]
                         /\ UNCHANGED <<rsp, mutex>>
                    ELSE /\ mutex["rsp"] = Free
                         /\ IF StoredAt(results[s][i]) > Len(rsp)
                            THEN /\ mutex' = [mutex EXCEPT !["rsp"] = h]
                                 /\ pcCb' = [pcCb EXCEPT ![h] = "dead"]
                                 /\ UNCHANGED rsp
                            ELSE /\ rsp' = [rsp EXCEPT ![StoredAt(results[s][i])] =
                                                            ResultOf(calls[h])]
                                 /\ pcCb' = [pcCb EXCEPT ![h] = "dec"]
                                 /\ UNCHANGED mutex
    /\ UNCHANGED <<rqt, cloud_state, server_list, conn_list, rqt_n, mng_stop,
                   reg_found, terminated, interrupted, server_dispo, results,
                   pcMain, simLocal, ret, batches, pcRun, server_hash, starts,
                   unitOp, optVars, tickVars>>

\* self.cloud_state[server_id].nb_threads -= 1 under mutex_cloud_state; a
\* server removed since the membership test raises KeyError with the lock held
CbDecrement(h) ==
    /\ pcCb[h] = "dec"
    /\ mutex["cloud_state"] = Free
    /\ IF calls[h].server \in DOMAIN cloud_state
       THEN /\ cloud_state' = [cloud_state EXCEPT ![calls[h].server].nb_threads = @ - 1]
            /\ pcCb' = [pcCb EXCEPT ![h] = "clean"]
            /\ UNCHANGED mutex
       ELSE /\ mutex' = [mutex EXCEPT !["cloud_state"] = h]
            /\ pcCb' = [pcCb EXCEPT ![h] = "dead"]
            /\ UNCHANGED cloud_state
    /\ UNCHANGED <<rqt, rsp, server_list, conn_list, rqt_n, mng_stop, reg_found,
                   terminated, interrupted, server_dispo, results, calls,
                   pcMain, simLocal, ret, batches, pcRun, server_hash, starts,
                   unitOp, optVars, tickVars>>

\* del_clean_simulation(server_hash, res): the first simulation whose callback
\* is res names an index; the first entry with that index is deleted
CleanedSims(sims, h) ==
    LET i == Matching(sims, h)
    IN  IF i = 0 THEN sims
        ELSE RemoveAt(sims, FirstIndex(sims, LAMBDA r : r.index = sims[i].index))

DelCleanSimulation(res, s, h) ==
    IF s \in DOMAIN res THEN [res EXCEPT ![s] = CleanedSims(res[s], h)] ELSE res

WithoutConnexion(cl, h) == SelectSeq(cl, LAMBDA c : c.call # h)

\* back in __process_callback.  With the server tracked: the log line reads
\* self.cloud_state[server_id] (KeyError when the server has been removed
\* meanwhile), then del_clean_simulation.  In both branches:
\* item.connexion.close(); self.conn_list.remove(item) under mutex_conn_list
CbFinish(h) ==
    /\ pcCb[h] \in {"clean", "close"}
    /\ IF pcCb[h] = "clean" /\ calls[h].server \notin DOMAIN cloud_state
       THEN /\ pcCb' = [pcCb EXCEPT ![h] = "dead"]
            /\ UNCHANGED <<results, conn_list>>
       ELSE /\ mutex["conn_list"] = Free
            /\ IF pcCb[h] = "clean"
               THEN /\ mutex["res"] = Free
                    /\ results' = DelCleanSimulation(results, calls[h].server, h)
               ELSE UNCHANGED results
            /\ conn_list' = WithoutConnexion(conn_list, h)
            /\ pcCb' = [pcCb EXCEPT ![h] = "done"]
    /\ UNCHANGED <<rqt, rsp, cloud_state, server_list, rqt_n, mng_stop,
                   reg_found, terminated, interrupted, server_dispo, mutex,
                   calls, pcMain, simLocal, ret, batches, pcRun, server_hash, starts,
                   unitOp, optVars, tickVars>>

\* ------------------------------------------------------------------ specification
Main ==
    \/ Start
    \/ Stop
    \/ StopJoined
    \/ SimulateRejected
    \/ \E n \in 0..MaxBatch : SimulateAccepted(n, MaxBatches)
    \/ SimAppend
    \/ SimEnqueued
    \/ SimFill
    \/ SimContinue
    \/ SimReturn
    \/ \E int \in BOOLEAN : SimPoll(int)
    \/ SimInterrupted

Run ==
    \/ RunExit
    \/ RunRefresh(SUBSET Servers)
    \/ RunSelect
    \/ RequestConnectFails
    \/ RequestEOF(MaxCalls)
    \/ RequestIssueFails(MaxCalls)
    \/ RequestSent(MaxCalls)
    \/ RunPop

Callbacks ==
    \/ \E h \in CallIds : Expire(h)
    \/ \E h \in CallIds : ReplyError(h)
    \/ \E h \in CallIds : Reply(h)
    \/ \E h \in CallIds : CbDecrement(h)
    \/ \E h \in CallIds : CbFinish(h)

Next == Main \/ Run \/ Callbacks

Spec == Init /\ [][Next]_vars

\* ------------------------------------------------------------------ fair specification
\* One started client and one batch; no stop, no interrupt, no fatal dispatch
\* error.  Server 1 is reported by every discovery.  Every thread that can
\* take a step eventually takes one, and every pending call eventually
\* completes, errors or expires.
LiveMaxCalls == 3
LiveBatch == 2

AlwaysServerOne == {d \in SUBSET Servers : 1 \in d}

MainLive ==
    \/ Start
    \/ SimulateAccepted(LiveBatch, 1)
    \/ SimAppend
    \/ SimEnqueued
    \/ SimFill
    \/ SimContinue
    \/ SimReturn
    \/ SimPoll(FALSE)

RunLive ==
    \/ RunRefresh(AlwaysServerOne)
    \/ RunSelect
    \/ RequestSent(LiveMaxCalls)
    \/ RunPop

CallLive(h) ==
    \/ Expire(h)
    \/ ReplyError(h)
    \/ Reply(h)
    \/ CbDecrement(h)
    \/ CbFinish(h)

CallsLive ==
    \/ \E h \in CallIds : Expire(h)
    \/ \E h \in CallIds : ReplyError(h)
    \/ \E h \in CallIds : Reply(h)
    \/ \E h \in CallIds : CbDecrement(h)
    \/ \E h \in CallIds : CbFinish(h)

NextLive == MainLive \/ RunLive \/ CallsLive

SpecLive ==
    /\ Init
    /\ [][NextLive]_vars
    /\ WF_vars(MainLive)
    /\ WF_vars(RunLive)
    /\ \A h \in 1..LiveMaxCalls : WF_vars(h \in CallIds /\ CallLive(h))

\* ------------------------------------------------------------------ fair specification with a user interrupt
\* As SpecLive, and the user may interrupt the poll loop of simulate
\* (KeyboardInterrupt in time.sleep).  The clock runs: once
\* self.interrupted is set, a later pass of the poll loop reads
\* to >= self.interrupt_to.
GraceOver == SimPoll(FALSE) /\ simLocal'.to_over

MainInt ==
    \/ Start
    \/ SimulateAccepted(LiveBatch, 1)
    \/ SimAppend
    \/ SimEnqueued
    \/ SimFill
    \/ SimContinue
    \/ SimReturn
    \/ \E int \in BOOLEAN : SimPoll(int)
    \/ SimInterrupted

RunInt ==
    \/ RunExit
    \/ RunRefresh(AlwaysServerOne)
    \/ RunSelect
    \/ RequestSent(LiveMaxCalls)
    \/ RunPop

NextInt == MainInt \/ RunInt \/ CallsLive

SpecInt ==
    /\ Init
    /\ [][NextInt]_vars
    /\ WF_vars(MainInt)
    /\ SF_vars(GraceOver)
    /\ WF_vars(RunInt)
    /\ \A h \in 1..LiveMaxCalls : WF_vars(h \in CallIds /\ CallLive(h))

\* ------------------------------------------------------------------ method-level specification
\* __refresh_cloud_state, check_sim and __select_candidate's choice applied
\* once to a client state drawn from bounded sets: either any set of tracked
\* servers with any status and thread count and nothing in flight, or servers
\* 1 and 2 with up to MaxUnitCalls dispatched calls that are pending, expired
\* or errored and still tracked in self.results, their Connexions registered;
\* in both cases an empty or a non-empty request queue.
UnitServers == 1..NumUnitServers

UnitCallStates == {"pending", "expired", "error"}

\* the in-flight list of server s: the requests of the calls sent to it
UnitSims(cl, s) ==
    LET mine == SelectSeq([h \in 1..Len(cl) |-> h], LAMBDA h : cl[h].server = s)
    IN  [i \in 1..Len(mine) |->
            [batch |-> cl[mine[i]].batch, index |-> cl[mine[i]].index, callback |-> mine[i]]]

InitUnit ==
    /\ \/ /\ \E D \in SUBSET UnitServers :
               cloud_state \in [D -> [status : BOOLEAN, nb_threads : 0..MaxUnitThreads]]
          /\ calls = <<>>
       \/ /\ \E D \in SUBSET {1, 2} :
               cloud_state \in [D -> [status : BOOLEAN, nb_threads : 0..MaxUnitThreads]]
          /\ \E n \in 1..MaxUnitCalls :
               \E c \in [1..n -> [status : UnitCallStates, server : {1, 2}]] :
                   calls = [h \in 1..n |->
                               [status |-> c[h].status, server |-> c[h].server,
                                batch |-> 1, index |-> h - 1]]
    /\ pcCb = [h \in 1..Len(calls) |-> "idle"]
    /\ server_list = DOMAIN cloud_state
    /\ reg_found \in (IF server_list # {} THEN {TRUE} ELSE BOOLEAN)
    /\ results = [s \in {calls[h].server : h \in 1..Len(calls)} |-> UnitSims(calls, s)]
    /\ conn_list = [h \in 1..Len(calls) |-> NewConnexion(calls[h].server, h)]
    /\ rqt \in {<<>>, <<NewRequest(1, 1)>>}
    /\ rqt_n = Len(rqt)
    /\ rsp = <<Empty, Empty>>
    /\ mng_stop = FALSE
    /\ terminated = FALSE
    /\ interrupted = FALSE
    /\ server_dispo = FALSE
    /\ mutex = [l \in LockNames |-> Free]
    /\ pcMain = "unit"
    /\ simLocal = NoLocals
    /\ ret = NoReturn
    /\ batches = 1
    /\ pcRun = "none"
    /\ server_hash = 0
    /\ starts = 1
    /\ unitOp = NoOp
    /\ InitOptimization
    /\ InitTick

Before(op) == [op |-> op, rqt |-> rqt, cloud_state |-> cloud_state,
               results |-> results, conn_list |-> conn_list, disc |-> {}]

UnitRefresh ==
    /\ unitOp.op = "none"
    /\ \E disc \in SUBSET UnitServers :
        LET sl == RefreshedServerList(disc, server_list, reg_found)
        IN  /\ unitOp' = [Before("refresh") EXCEPT !.disc = disc]
            /\ server_list' = sl
            /\ reg_found' = RefreshedRegFound(disc, server_list, reg_found)
            /\ cloud_state' = RefreshedCloud(sl, cloud_state, rqt)
    /\ UNCHANGED <<rqt, rsp, conn_list, rqt_n, mng_stop, terminated, interrupted,
                   server_dispo, results, mutex, calls, pcMain, simLocal, ret,
                   batches, pcRun, server_hash, starts, pcCb, optVars, tickVars>>

UnitCheckSim ==
    /\ unitOp.op = "none"
    /\ unitOp' = Before("check_sim")
    /\ \E resOrder \in Orders(DOMAIN results) :
        LET st == CheckSim(ClientState, resOrder, calls)
        IN  /\ rqt' = st.rqt
            /\ rqt_n' = st.rqt_n
            /\ cloud_state' = st.cloud_state
            /\ conn_list' = st.conn_list
            /\ results' = st.results
    /\ UNCHANGED <<rsp, server_list, mng_stop, reg_found, terminated, interrupted,
                   server_dispo, mutex, calls, pcMain, simLocal, ret, batches,
                   pcRun, server_hash, starts, pcCb, optVars, tickVars>>

UnitSelect ==
    /\ unitOp.op = "none"
    /\ unitOp' = Before("select")
    /\ \E cloudOrder \in Orders(DOMAIN cloud_state) :
         server_hash' = SelectCandidate(cloudOrder, cloud_state)
    /\ UNCHANGED <<rqt, rsp, cloud_state, server_list, conn_list, rqt_n, mng_stop,
                   reg_found, terminated, interrupted, server_dispo, results, mutex,
                   calls, pcMain, simLocal, ret, batches, pcRun, starts, pcCb, optVars, tickVars>>

NextUnit == UnitRefresh \/ UnitCheckSim \/ UnitSelect

SpecUnit == InitUnit /\ [][NextUnit]_vars

\* ------------------------------------------------------------------ Optimization
\* (src/src/optimization/optimization.py) the observer of the client: update
\* is called with the keyword arguments of a notification; notify builds the
\* notification the optimizer sends to its own observers.
\*
\* The notifier owns the objects it passes as res: object o is a dict, a list
\* or an immutable scalar, known here by its size.  A keyword value is a
\* reference to such an object.  An element of self.res_list is either a
\* reference to the object that was passed or a new dict with the keys the
\* passed dict had at that moment.
ObjIds == 1..NumObjects

ObjType(o) ==
    IF o % 3 = 1 THEN "dict" ELSE IF o % 3 = 2 THEN "list" ELSE "scalar"

ResValues == {[type |-> ObjType(o), obj |-> o] : o \in ObjIds}
InterruptionValues == [type : {"bool", "int"}, val : BOOLEAN]

KwargsSet ==
    {kw \in [has_res : BOOLEAN, res : ResValues \cup {NoRes},
             has_interruption : BOOLEAN,
             interruption : InterruptionValues \cup {NoInterruption}] :
        /\ kw.has_res <=> kw.res # NoRes
        /\ kw.has_interruption <=> kw.interruption # NoInterruption}

\* type(kwargs["interruption"]) == bool and kwargs["interruption"]
IsBoolTrue(v) == v.type = "bool" /\ v.val

\* the flag after update(**kw): the interruption entry is read only in the
\* elif branch, when there is no res entry
UpdatedInterruptionAssigned(kw, flag) ==
    IF kw.has_res THEN flag
    ELSE IF kw.has_interruption THEN IsBoolTrue(kw.interruption)
    ELSE flag

UpdatedInterruption(kw, flag) ==
    IF kw.has_res THEN flag
    ELSE IF kw.has_interruption /\ IsBoolTrue(kw.interruption) THEN TRUE
    ELSE flag

\* kwargs["res"].copy(): a new dict with the same keys
DictCopy(v, objs) == [kind |-> "copy", obj |-> 0, size |-> objs[v.obj].size]
\* the object itself
Reference(v, objs) == [kind |-> "ref", obj |-> v.obj, size |-> 0]

\* if type(kwargs["res"]) == dict: append(kwargs["res"].copy())
\* else: append(kwargs["res"])
Appended(v, objs) ==
    IF v.type = "dict" THEN DictCopy(v, objs) ELSE Reference(v, objs)

\* the result list after update(**kw)
UpdatedResList(kw, list, objs) ==
    IF kw.has_res THEN Append(list, Appended(kw.res, objs)) ELSE list

\* what an element of the result list reads as
ElementValue(e, objs) == IF e.kind = "ref" THEN objs[e.obj].size ELSE e.size

OptBefore(op, value) == [op |-> op, interruption |-> interruption,
                         res_len |-> Len(res_list), ret |-> value]

\* Optimization.update(**kwargs)
Update ==
    /\ Len(res_list) < MaxResList
    /\ \E kw \in KwargsSet :
        /\ kwargs' = kw
        /\ interruption' = UpdatedInterruption(kw, interruption)
        /\ res_list' = UpdatedResList(kw, res_list, objects)
    /\ optOp' = OptBefore("update", "None")
    /\ UNCHANGED <<clientVars, tickVars, objects>>

\* the notifier changes one of its dicts or lists in place (as the client does
\* with self.rsp[simulation.index] = ...)
Mutate ==
    /\ \E o \in ObjIds : \E n \in 0..MaxResSize :
        /\ ObjType(o) # "scalar"
        /\ n # objects[o].size
        /\ objects' = [objects EXCEPT ![o].size = n]
    /\ optOp' = OptBefore("mutate", "None")
    /\ kwargs' = NoKwargs
    /\ UNCHANGED <<clientVars, tickVars, interruption, res_list>>

\* Optimization.eval_fct(population): self.res_list = []; if
\* self.interruption: return 0. (the method body ends there: None otherwise)
EvalFctKeepsList(list) == list

EvalFctResList(list) == <<>>

EvalFctReturn(flag) == IF flag THEN "0." ELSE "None"

EvalFct ==
    /\ res_list' = EvalFctResList(res_list)
    /\ optOp' = OptBefore("eval_fct", EvalFctReturn(interruption))
    /\ kwargs' = NoKwargs
    /\ UNCHANGED <<clientVars, tickVars, interruption, objects>>

\* Optimization.conv_fct(algorithm): if self.interruption: return True
ConvFctReturn(flag) == IF flag THEN "True" ELSE "None"

ConvFct ==
    /\ optOp' = OptBefore("conv_fct", ConvFctReturn(interruption))
    /\ kwargs' = NoKwargs
    /\ UNCHANGED <<clientVars, tickVars, interruption, res_list, objects>>

\* Optimization.start(**kwargs): the body is its docstring
OptimizationStart ==
    /\ optOp' = OptBefore("start", "None")
    /\ kwargs' = NoKwargs
    /\ UNCHANGED <<clientVars, tickVars, interruption, res_list, objects>>

\* Optimization.save(): writes self.best_solutions_list to a file
Save ==
    /\ optOp' = OptBefore("save", "None")
    /\ kwargs' = NoKwargs
    /\ UNCHANGED <<clientVars, tickVars, interruption, res_list, objects>>

\* Optimization.notify() without a specific notification: the default
\* notification carries both keys; its res is self.res_list itself
DefaultNotification(flag, list) ==
    [has_res |-> TRUE, res |-> [type |-> "list", obj |-> 0],
     has_interruption |-> TRUE, interruption |-> [type |-> "bool", val |-> flag]]

Notify ==
    /\ optOp.op # "notify"
    /\ kwargs' = DefaultNotification(interruption, res_list)
    /\ optOp' = OptBefore("notify", "None")
    /\ UNCHANGED <<clientVars, tickVars, interruption, res_list, objects>>

NextOpt ==
    \/ Update
    \/ Mutate
    \/ EvalFct
    \/ ConvFct
    \/ OptimizationStart
    \/ Save
    \/ Notify

SpecOpt == Init /\ [][NextOpt]_vars

\* ------------------------------------------------------------------ body.py
\* The muscle classes (module muscle) and the Brain are not part of the
\* sources: a muscle is known by its name, the number of update calls it
\* received and the control signal of the last one (<<>> when update was
\* called without ctrl_sig); its get_power and the brain's next state are
\* inputs of the tick.
MaxTicks == 2
MaxSteps == 2
MaxRef == 2
MaxPower == 1

LegNames == {"l_ba", "r_ba", "l_fo", "r_fo"}
\* config.back_leg_L_muscles, back_leg_R_muscles, front_leg_L_muscles,
\* front_leg_R_muscles and body["muscles"]
LegMuscles == [l_ba |-> <<"a", "b">>, r_ba |-> <<"c">>, l_fo |-> <<"d">>,
               r_fo |-> <<"e">>]
TrunkMuscles == <<"t">>
MuscleNames == {"a", "b", "c", "d", "e"}
\* a row of the connection matrix that matches the four brain outputs, and
\* one that is one weight short
GoodRow == [a |-> <<1, 0, -1, 2>>, b |-> <<0, 1, 1, 0>>, c |-> <<2, 0, 0, 1>>,
            d |-> <<-1, 1, 0, 0>>, e |-> <<0, 0, 1, 1>>]
ShortRow == <<1, 1, 1>>
\* the connection matrices with at most one short row
ConnectionMatrices ==
    {[m \in MuscleNames |-> IF m \in S THEN ShortRow ELSE GoodRow[m]] :
        S \in {R \in SUBSET MuscleNames : Cardinality(R) <= 1}}
RefValues == 1..MaxRef
Configs == [dist_ref : RefValues, power_ref : RefValues,
            connection_matrix : ConnectionMatrices]
\* positions of the trunk in the host world, on one line so that every
\* distance between two of them is a whole number
Positions == {<<3 * k, 4 * k>> : k \in 0..MaxSteps}
BrainStates == {<<1, 0, 2, 1>>, <<2, 1, 0, 3>>}
InitialBrainState == <<0, 0, 0, 0>>
PowerValues == 0..MaxPower

\* BlenderUtils.get_object: the object if it exists, else None
get_object(sc, name) == IF name \in sc.objects THEN name ELSE "None"

\* Part.__init__ and the muscle's constructor
NewMuscle(name) == [name |-> name, n_iter |-> 0, ctrl_sig |-> <<>>]
NewMuscles(names) == [i \in 1..Len(names) |-> NewMuscle(names[i])]
\* Leg.__init__
NewLeg(names) == [n_iter |-> 0, muscles |-> NewMuscles(names)]

\* vec(a - b).length, for two points of Positions
Length(a, b) ==
    LET dx == a[1] - b[1]
        dy == a[2] - b[2]
    IN  CHOOSE n \in 0..(5 * (MaxSteps + 1)) : n * n = dx * dx + dy * dy

\* Body.__init__: the trunk object is looked up; when it is absent an error
\* is logged and active is set to False, and the next statement reads
\* worldTransform of None, which raises AttributeError: no Body is returned
BodyInit(objs, pos, cfg) ==
    /\ body.status = "none"
    /\ scene' = [objects |-> objs, position |-> pos]
    /\ LET obj == get_object(scene', "trunk")
           found == obj # "None"
           part == [NoBody EXCEPT !.body_obj = obj, !.config = cfg,
                                  !.active = IF found THEN "unset" ELSE "False"]
       IN  IF found
           THEN /\ body' = [part EXCEPT !.status = "built",
                                        !.origin = pos,
                                        !.position = pos,
                                        !.dist = Length(pos, pos),
                                        !.legs = [l \in LegNames |-> NewLeg(LegMuscles[l])],
                                        !.brain = [state |-> InitialBrainState, n_iter |-> 0],
                                        !.muscles = NewMuscles(TrunkMuscles)]
                /\ bodyOp' = [NoBodyOp EXCEPT !.op = "init"]
           ELSE /\ body' = [part EXCEPT !.status = "raised"]
                /\ bodyOp' = [NoBodyOp EXCEPT !.op = "init", !.errors = 1,
                                              !.raised = "AttributeError"]
    /\ UNCHANGED <<clientVars, optVars, fiberVars, oscVars>>

\* "..." + len(brain_output): the concatenation of a str and an int
StrPlus(type) == IF type = "str" THEN "str" ELSE "TypeError"

\* the linear combination of the brain outputs, as the loop over
\* brain_output computes it
RECURSIVE CtrlSigFrom(_, _, _)
CtrlSigFrom(row, brain_output, j) ==
    IF j > Len(brain_output) THEN 0
    ELSE row[j] * brain_output[j] + CtrlSigFrom(row, brain_output, j + 1)

CtrlSigUnweighted(row, brain_output) ==
    CtrlSigFrom([j \in 1..Len(row) |-> 1], brain_output, 1)

CtrlSig(row, brain_output) == CtrlSigFrom(row, brain_output, 1)

\* Muscle.update(ctrl_sig = c), or Muscle.update() when sig is <<>>
MuscleUpdate(m, sig) == [m EXCEPT !.n_iter = @ + 1, !.ctrl_sig = sig]

\* a call of the tick, as recorded in bodyOp.trace
Event(what, part, name, sig, brain) ==
    [what |-> what, part |-> part, name |-> name, ctrl_sig |-> sig, brain |-> brain]

\* one pass of the loop of Leg.update for muscle i; st is the tick so far:
\* the body, the exception raised, the errors logged, the calls made
LegStep(st, l, i, brain_output) ==
    LET m == st.body.legs[l].muscles[i]
        row == st.body.config.connection_matrix[m.name]
    IN  IF Len(row) # Len(brain_output)
        THEN IF StrPlus("int") = "TypeError"
             THEN [st EXCEPT !.raised = "TypeError"]
             ELSE [st EXCEPT !.errors = @ + 1]
        ELSE LET sig == <<CtrlSig(row, brain_output)>>
             IN  [st EXCEPT !.body.legs[l].muscles[i] = MuscleUpdate(m, sig),
                            !.body.legs[l].n_iter = @ + 1,
                            !.trace = Append(@, Event("muscle.update", l, m.name, sig,
                                                      st.body.brain))]

\* Leg.update(brain_output), from muscle i on; an exception ends it
RECURSIVE LegUpdate(_, _, _, _)
LegUpdate(st, l, i, brain_output) ==
    IF st.raised # "none" \/ i > Len(st.body.legs[l].muscles) THEN st
    ELSE LegUpdate(LegStep(st, l, i, brain_output), l, i + 1, brain_output)

\* the order in which Body.update updates the legs
LegOrder == <<"l_ba", "r_ba", "l_fo", "r_fo">>

RECURSIVE LegsUpdate(_, _, _)
LegsUpdate(st, k, brain_output) ==
    IF st.raised # "none" \/ k > Len(LegOrder) THEN st
    ELSE LegsUpdate(LegUpdate(st, LegOrder[k], 1, brain_output), k + 1, brain_output)

\* for muscle in self.muscles: muscle.update()
RECURSIVE TrunkUpdate(_, _)
TrunkUpdate(st, i) ==
    IF st.raised # "none" \/ i > Len(st.body.muscles) THEN st
    ELSE TrunkUpdate([st EXCEPT !.body.muscles[i] = MuscleUpdate(@, <<>>),
                                !.trace = Append(@, Event("muscle.update", "body",
                                                          st.body.muscles[i].name, <<>>,
                                                          st.body.brain))],
                     i + 1)

RECURSIVE SumSeq(_)
SumSeq(q) == IF q = <<>> THEN 0 ELSE q[1] + SumSeq(Tail(q))

\* Leg.get_power of the four legs and the loop over the trunk muscles, every
\* muscle reporting the same power
TotalPower(b, power) ==
    SumSeq([k \in 1..Len(LegOrder) |-> Len(b.legs[LegOrder[k]].muscles) * power])
        + Len(b.muscles) * power

ComputePowerReplacing(st, power) ==
    IF st.raised # "none" THEN st
    ELSE [st EXCEPT !.body.powers = <<TotalPower(st.body, power)>>,
                    !.trace = Append(@, Event("compute_power", "body", "", <<>>,
                                              st.body.brain))]

\* Body.compute_power
ComputePower(st, power) ==
    IF st.raised # "none" THEN st
    ELSE [st EXCEPT !.body.powers = Append(@, TotalPower(st.body, power)),
                    !.trace = Append(@, Event("compute_power", "body", "", <<>>,
                                              st.body.brain))]

\* self.n_iter += 1
CountTick(st) ==
    IF st.raised # "none" THEN st ELSE [st EXCEPT !.body.n_iter = @ + 1]

\* self.brain.update(): the brain moves to its next state
BrainUpdate(st, next_state) ==
    [st EXCEPT !.body.brain = [state |-> next_state, n_iter |-> @.n_iter + 1],
               !.trace = Append(@, Event("brain.update", "brain", "", <<>>,
                                         [state |-> next_state,
                                          n_iter |-> st.body.brain.n_iter + 1]))]

\* Body.update: one tick
BodyUpdate(next_state, power) ==
    /\ body.status = "built"
    /\ body.brain.n_iter < MaxTicks
    /\ LET st0 == [body |-> body, raised |-> "none", errors |-> 0, trace |-> <<>>]
           st1 == BrainUpdate(st0, next_state)
           brain_output == st1.body.brain.state
           st2 == LegsUpdate(st1, 1, brain_output)
           st3 == TrunkUpdate(st2, 1)
           st4 == ComputePower(st3, power)
           st5 == CountTick(st4)
       IN  /\ body' = st5.body
           /\ bodyOp' = [op |-> "update", raised |-> st5.raised, errors |-> st5.errors,
                         trace |-> st5.trace, before |-> body]
    /\ UNCHANGED <<clientVars, optVars, scene, fiberVars, oscVars>>

ComputeTraveledDistFromZero(b, sc) ==
    [b EXCEPT !.position = sc.position, !.dist = Length(sc.position, <<0, 0>>)]

\* Body.compute_traveled_dist
ComputeTraveledDist(b, sc) ==
    [b EXCEPT !.position = sc.position, !.dist = Length(sc.position, b.origin)]

\* Body.get_loss_fct, the host having moved the trunk to pos: the mean of
\* the power history and the two quotients are float divisions, which raise
\* ZeroDivisionError on a zero divisor
GetLossFct(pos) ==
    /\ body.status = "built"
    /\ bodyOp.op # "get_loss_fct"
    /\ scene' = [scene EXCEPT !.position = pos]
    /\ LET b1 == ComputeTraveledDist(body, scene')
           n == Len(b1.powers)
           total == SumSeq(b1.powers)
           b2 == [b1 EXCEPT !.av_power = Frac(total, n)]
           b3 == [b2 EXCEPT !.loss_fct = [dist |-> Frac(b2.dist, b2.config.dist_ref),
                                          power |-> Frac(b2.config.power_ref * n, total),
                                          set |-> TRUE]]
       IN  IF n = 0
           THEN /\ body' = b1
                /\ bodyOp' = [NoBodyOp EXCEPT !.op = "get_loss_fct", !.before = body,
                                              !.raised = "ZeroDivisionError"]
           ELSE IF total = 0
           THEN /\ body' = b2
                /\ bodyOp' = [NoBodyOp EXCEPT !.op = "get_loss_fct", !.before = body,
                                              !.raised = "ZeroDivisionError"]
           ELSE /\ body' = b3
                /\ bodyOp' = [NoBodyOp EXCEPT !.op = "get_loss_fct", !.before = body]
    /\ UNCHANGED <<clientVars, optVars, fiberVars, oscVars>>

NextBody ==
    \/ \E objs \in SUBSET {"trunk"} : \E pos \in Positions : \E cfg \in Configs :
           BodyInit(objs, pos, cfg)
    \/ \E next_state \in BrainStates : \E power \in PowerValues :
           BodyUpdate(next_state, power)
    \/ \E pos \in Positions : GetLossFct(pos)

SpecBody == Init /\ [][NextBody]_vars

\* ------------------------------------------------------------------ muscles/fiber.py
\* Frequencies, thresholds and cross-sectional fractions are counted in
\* thousandths: f_05 = 360 is 0.36 and u_th = 1 is 0.001.
Milli == 1000
MaxUpdates == 2

FiberClasses == {"Fiber", "SlowTwitchFiber", "FastTwitchFiber"}
\* the f_05 of BrownMuscle and its double; fractional cross-sectional areas
F05Values == {360, 720}
FPcsaValues == {0, 500, 1000}
SpikeFrequencies == {0, 1, 2, 400, 500, 800, 1000}

\* the coefficients the constructors set that update_force reads
Coef(cls) ==
    [t_f1 |-> IF cls = "FastTwitchFiber" THEN Val(206, 10) ELSE Val(343, 10),
     t_f2 |-> IF cls = "FastTwitchFiber" THEN Val(136, 10) ELSE Val(227, 10),
     t_f3 |-> IF cls = "FastTwitchFiber" THEN Val(282, 10) ELSE Val(470, 10),
     t_f4 |-> IF cls = "FastTwitchFiber" THEN Val(151, 10) ELSE Val(252, 10),
     af |-> Val(56, 100),
     n_f0 |-> Val(21, 10),
     n_f1 |-> IF cls = "FastTwitchFiber" THEN Val(33, 10) ELSE Val(5, 1),
     c_gamma |-> Val(35, 100), v_gamma |-> Val(1, 10), t_gamma |-> Val(200, 1),
     as1 |-> Val(176, 100), as2 |-> Val(96, 100), ts |-> Val(43, 1)]

\* Fiber.__init__, then the assignments of the subclass constructor
FiberNew(cls, f_pcsa, f_05) ==
    [NoFiber EXCEPT !.cls = cls,
                    !.h = Val(1, 100),
                    !.f_pcsa = f_pcsa,
                    !.f_05 = f_05,
                    !.length = Val(1, 1),
                    !.max_length = Val(0, 1),
                    !.velocity = Val(0, 1),
                    !.f_min = f_05 \div 2,
                    !.f_max = 2 * f_05,
                    !.f_env = Zero,
                    !.u_th = IF cls = "FastTwitchFiber" THEN (f_pcsa * 8) \div 10 ELSE 1,
                    !.tf = Val(0, 1),
                    !.f_int = Val(0, 1),
                    !.f_eff = Val(0, 1),
                    !.nf = Val(0, 1),
                    !.activation_frequency = Val(0, 1),
                    !.yielding = IF cls = "SlowTwitchFiber" THEN Val(0, 1) ELSE Absent,
                    !.sag = IF cls = "FastTwitchFiber" THEN Val(0, 1) ELSE Absent]

FiberInit(cls, f_pcsa, f_05) ==
    /\ fiber.cls = "none"
    /\ fiber' = FiberNew(cls, f_pcsa, f_05)
    /\ fiberOp' = [NoFiberOp EXCEPT !.op = "init"]
    /\ UNCHANGED <<clientVars, optVars, bodyVars, oscVars>>

ProcessRecruitmentFromThreshold(f, spike_frequency) ==
    [f EXCEPT !.f_env =
        IF spike_frequency >= f.u_th /\ Milli # f.u_th
        THEN Frac(f.f_min * (Milli - f.u_th) + (f.f_max - f.f_min) * spike_frequency,
                  Milli - f.u_th)
        ELSE Frac(f.f_min, 1)]

\* Fiber.__process_recruitment:
\* f_min + (f_max - f_min) / (1 - u_th) * spike_frequency above the threshold
ProcessRecruitment(f, spike_frequency) ==
    [f EXCEPT !.f_env =
        IF spike_frequency > f.u_th
        THEN Frac(f.f_min * (Milli - f.u_th) + (f.f_max - f.f_min) * spike_frequency,
                  Milli - f.u_th)
        ELSE Frac(f.f_min, 1)]

\* f_env as an expression, in units
FEnv(f) == T("val", <<Frac(f.f_env.num, f.f_env.den * Milli)>>)

\* Fiber.__process_tf
ProcessTf(f, d_f_eff) ==
    [f EXCEPT !.tf =
        T("if_ge_0",
          <<d_f_eff,
            T("add", <<T("mul", <<Coef(f.cls).t_f1, T("pow", <<f.length, Val(2, 1)>>)>>),
                       T("mul", <<Coef(f.cls).t_f2, FEnv(f)>>)>>),
            T("div", <<T("add", <<Coef(f.cls).t_f3,
                                  T("mul", <<Coef(f.cls).t_f4, f.activation_frequency>>)>>),
                       f.length>>)>>)]

\* x + h * (target - x) / tf: one Euler step of x towards target
Euler(f, x, target) ==
    T("add", <<x, T("mul", <<f.h, T("div", <<T("sub", <<target, x>>), f.tf>>)>>)>>)

\* Fiber.__intermediate_firing_frequency
IntermediateFiringFrequency(f) == [f EXCEPT !.f_int = Euler(f, f.f_int, FEnv(f))]

\* Fiber.__effective_firing_frequency
EffectiveFiringFrequency(f) == [f EXCEPT !.f_eff = Euler(f, f.f_eff, f.f_int)]

\* Fiber.__process_nf
ProcessNf(f) ==
    [f EXCEPT !.nf =
        T("add", <<Coef(f.cls).n_f0,
                   T("mul", <<Coef(f.cls).n_f1,
                              T("sub", <<T("div", <<Val(1, 1), f.length>>), Val(1, 1)>>)>>)>>)]

\* Python stores a name __x written in the body of class C as _C__x: the
\* attributes each class body defines, as pairs of the class and the name
ClassAttrs ==
    [Fiber |-> {<<"Fiber", "specific_function">>, <<"Fiber", "activation_frequency">>,
                <<"Fiber", "process_recruitment">>, <<"Fiber", "process_tf">>,
                <<"Fiber", "intermediate_firing_frequency">>,
                <<"Fiber", "effective_firing_frequency">>, <<"Fiber", "process_nf">>},
     SlowTwitchFiber |-> {<<"SlowTwitchFiber", "specific_function">>},
     FastTwitchFiber |-> {<<"FastTwitchFiber", "specific_function">>}]

\* the classes searched for an attribute of an instance of cls, in order
Mro(cls) == IF cls = "Fiber" THEN <<"Fiber">> ELSE <<cls, "Fiber">>

\* the class whose method self.__name() is bound to, the call being written
\* in the body of class within, for an instance of cls
Resolve(cls, within, name) ==
    LET found == {k \in 1..Len(Mro(cls)) : <<within, name>> \in ClassAttrs[Mro(cls)[k]]}
    IN  Mro(cls)[CHOOSE k \in found : \A j \in found : k <= j]

\* Fiber.__specific_function: the constant 1.
BaseSpecificFunction(f) == [fiber |-> f, value |-> Val(1, 1)]

\* SlowTwitchFiber.__specific_function: one Euler step of the yielding
SlowSpecificFunction(f) ==
    LET d_yielding ==
            T("div",
              <<T("sub",
                  <<T("sub",
                      <<Val(1, 1),
                        T("mul",
                          <<Coef(f.cls).c_gamma,
                            T("sub",
                              <<Val(1, 1),
                                T("exp", <<T("neg", <<T("div", <<f.velocity,
                                                                 Coef(f.cls).v_gamma>>)>>)>>)
                              >>)>>)>>),
                    f.yielding>>),
                Coef(f.cls).t_gamma>>)
        yielding == T("add", <<f.yielding, T("mul", <<d_yielding, f.h>>)>>)
    IN  [fiber |-> [f EXCEPT !.yielding = yielding], value |-> yielding]

\* FastTwitchFiber.__specific_function: one step of the sag
FastSpecificFunction(f) ==
    LET sag_as == T("if_lt", <<f.f_eff, Val(1, 10), Coef(f.cls).as1, Coef(f.cls).as2>>)
        d_sag == T("div", <<T("sub", <<sag_as, f.sag>>), Coef(f.cls).ts>>)
        sag == T("add", <<sag_as, T("mul", <<d_sag, f.h>>)>>)
    IN  [fiber |-> [f EXCEPT !.sag = sag], value |-> sag]

\* the call self.__specific_function() in the body of class Fiber
SpecificFunction(f) ==
    LET owner == Resolve(f.cls, "Fiber", "specific_function")
    IN  IF owner = "SlowTwitchFiber" THEN SlowSpecificFunction(f)
        ELSE IF owner = "FastTwitchFiber" THEN FastSpecificFunction(f)
        ELSE BaseSpecificFunction(f)

\* Fiber.__activation_frequency
ActivationFrequency(f, specific) ==
    [f EXCEPT !.activation_frequency =
        T("sub", <<Val(1, 1),
                   T("exp", <<T("neg", <<T("pow",
                       <<T("div", <<T("mul", <<specific, f.f_eff>>),
                                    T("mul", <<Coef(f.cls).af, f.nf>>)>>),
                         f.nf>>)>>)>>)>>)]

\* Fiber.update_force: the six steps, then the sum of the passive and the
\* active force; the parallel elastic term divides the length by
\* max_length, which the constructor sets to 0. and nothing changes
UpdateForce(spike_frequency) ==
    /\ fiber.cls # "none"
    /\ fiber.n_iter < MaxUpdates
    /\ LET f1 == ProcessRecruitment(fiber, spike_frequency)
           f2 == ProcessTf(f1, IF f1.tf # Val(0, 1)
                               THEN T("div", <<T("sub", <<f1.f_int, f1.f_eff>>), f1.tf>>)
                               ELSE Val(0, 1))
           f3 == IntermediateFiringFrequency(f2)
           f4 == EffectiveFiringFrequency(f3)
           f5 == ProcessNf(f4)
           sp == SpecificFunction(f5)
           f6 == ActivationFrequency(sp.fiber, sp.value)
       IN  /\ fiber' = [f6 EXCEPT !.n_iter = @ + 1]
           /\ fiberOp' = [op |-> "update_force",
                          raised |-> IF f6.max_length = Val(0, 1)
                                     THEN "ZeroDivisionError" ELSE "none",
                          specific |-> sp.value,
                          call |-> [made |-> TRUE, spike_frequency |-> spike_frequency,
                                    f_env |-> f6.f_env],
                          prev |-> fiberOp.call,
                          before |-> fiber]
    /\ UNCHANGED <<clientVars, optVars, bodyVars, oscVars>>

NextFiber ==
    \/ \E cls \in FiberClasses : \E f_pcsa \in FPcsaValues : \E f_05 \in F05Values :
           FiberInit(cls, f_pcsa, f_05)
    \/ \E spike_frequency \in SpikeFrequencies : UpdateForce(spike_frequency)

SpecFiber == Init /\ [][NextFiber]_vars

\* ------------------------------------------------------------------ oscillators/parallel0scillators.py
\* MatsuokaNeurons and Synapse are not part of the sources. A unit is known
\* by the outputs y of its exciting and its inhibiting neuron, by the
\* synaptic input it has accumulated since its last reset, and by the unit
\* its synapse reads; the outputs a unit computes are inputs of the tick.
\* self.neurons[i] of the code is neurons[i + 1].
MaxOscTicks == 2
MaxOutput == 1

OutputValues == 0..MaxOutput
Units == {0, 1}

\* MatsuokaNeurons(...), then add_synapse(1, self.neurons[source].output)
NewUnit(source) == [exc_y |-> 0, inh_y |-> 0, acc |-> 0, source |-> source, n_iter |-> 0]

\* ParallelOscillator.__init__
OscInit ==
    /\ osc.status = "none"
    /\ osc' = [status |-> "built", save |-> FALSE,
               neurons |-> <<NewUnit(1), NewUnit(0)>>,
               rec |-> <<<<0, 0, 0, 0>>>>,
               state |-> <<>>,
               n_iter |-> 0]
    /\ oscOp' = [op |-> "init", trace |-> <<>>]
    /\ UNCHANGED <<clientVars, optVars, bodyVars, fiberVars>>

\* the owner switches the recording of the outputs on
OscSave ==
    /\ osc.status = "built"
    /\ ~osc.save
    /\ osc' = [osc EXCEPT !.save = TRUE]
    /\ oscOp' = [op |-> "save", trace |-> <<>>]
    /\ UNCHANGED <<clientVars, optVars, bodyVars, fiberVars>>

\* a call of the tick, with the synaptic input both units have accumulated
\* when it is made
OscCall(what, i, o) ==
    [what |-> what, unit |-> i, acc |-> <<o.neurons[1].acc, o.neurons[2].acc>>]

\* self.neurons[i].reset_updates()
ResetUpdates(st, i) ==
    [st EXCEPT !.osc.neurons[i + 1].acc = 0,
               !.trace = Append(@, OscCall("reset_updates", i, st.osc))]

\* for i in range(2): self.neurons[i].reset_updates()
RECURSIVE ResetAll(_, _)
ResetAll(st, i) == IF i >= 2 THEN st ELSE ResetAll(ResetUpdates(st, i), i + 1)

\* self.neurons[i].update(): the unit accumulates the output its synapse
\* reads and computes its two outputs
UnitUpdate(st, i, ys) ==
    LET u == st.osc.neurons[i + 1]
    IN  [st EXCEPT !.osc.neurons[i + 1] =
                       [u EXCEPT !.acc = @ + st.osc.neurons[u.source + 1].exc_y,
                                 !.exc_y = ys[1],
                                 !.inh_y = ys[2],
                                 !.n_iter = @ + 1],
                   !.trace = Append(@, OscCall("update", i, st.osc))]

AppendStateInhibitingFirst(st, i) ==
    [st EXCEPT !.osc.state = @ \o <<st.osc.neurons[i + 1].inh_y,
                                    st.osc.neurons[i + 1].exc_y>>,
               !.res = IF st.osc.save
                       THEN @ \o <<st.osc.neurons[i + 1].inh_y,
                                   st.osc.neurons[i + 1].exc_y>>
                       ELSE @]

\* self.state.append(exitatingNeuron.y); self.state.append(inhibitingNeuron.y)
\* and the same two values appended to res when save is set
AppendState(st, i) ==
    [st EXCEPT !.osc.state = @ \o <<st.osc.neurons[i + 1].exc_y,
                                    st.osc.neurons[i + 1].inh_y>>,
               !.res = IF st.osc.save
                       THEN @ \o <<st.osc.neurons[i + 1].exc_y,
                                   st.osc.neurons[i + 1].inh_y>>
                       ELSE @]

\* the second loop of update, from unit i on; ys[i + 1] are the outputs
\* unit i computes
RECURSIVE UpdateAll(_, _, _)
UpdateAll(st, i, ys) ==
    IF i >= 2 THEN st
    ELSE UpdateAll(AppendState(UnitUpdate(st, i, ys[i + 1]), i), i + 1, ys)

\* ParallelOscillator.update
OscUpdate(ys) ==
    /\ osc.status = "built"
    /\ osc.n_iter < MaxOscTicks
    /\ LET st0 == [osc |-> osc, res |-> <<>>, trace |-> <<>>]
           st1 == ResetAll(st0, 0)
           st2 == [st1 EXCEPT !.osc.state = <<>>]
           st3 == UpdateAll(st2, 0, ys)
       IN  /\ osc' = [st3.osc EXCEPT !.rec = IF st3.osc.save THEN Append(@, st3.res) ELSE @,
                                     !.n_iter = @ + 1]
           /\ oscOp' = [op |-> "update", trace |-> st3.trace]
    /\ UNCHANGED <<clientVars, optVars, bodyVars, fiberVars>>

NextOsc ==
    \/ OscInit
    \/ OscSave
    \/ \E ys \in [1..2 -> [1..2 -> OutputValues]] : OscUpdate(ys)

SpecOsc == Init /\ [][NextOsc]_vars

\* ------------------------------------------------------------------ claims
\* C2: under fair scheduling, with server 1 always discoverable and every call
\* eventually completing, erroring or expiring, an accepted simulate call
\* eventually returns its response list (or the model's budget of calls is
\* used up, which says nothing about the program).
C2_SimulateReturns ==
    (batches = 1) ~> (ret.kind = "list" \/ Len(calls) = LiveMaxCalls)

\* a request of results whose call has neither completed nor failed
InFlight ==
    \E s \in DOMAIN results : \E i \in 1..Len(results[s]) :
        calls[results[s][i].callback].status = "pending"

\* C1: a response list that simulate returns while the client is neither
\* interrupted nor terminated has no empty placeholder left, and position k
\* holds a result of a request with index k.
C1_ReturnedListComplete ==
    (ret.kind = "list" /\ ret.clean) =>
        \A k \in 1..Len(ret.val) : ret.val[k] # Empty /\ ret.val[k].index = k - 1

\* C3: simulate is accepted only when no request of an earlier batch is still
\* queued or still in flight on a server.
C3_AcceptedOnlyWhenFinished ==
    [][(pcMain = "idle" /\ pcMain' = "append") => (rqt = <<>> /\ ~InFlight)]_vars

\* C4: the pre-fill of an accepted batch of n parameter sets leaves exactly n
\* empty placeholders in the response list.
C4_PrefillHasBatchSize ==
    [][(pcMain = "fill" /\ pcMain' = "test") =>
          rsp' = [i \in 1..simLocal.sim_n |-> Empty]]_vars

\* C5: a non-placeholder entry at position k of the response list is the
\* result of a request whose index is k.
C5_ResultAtOwnIndex ==
    \A k \in 1..Len(rsp) : rsp[k] # Empty => rsp[k].index = k - 1

\* both results of a batch of two are stored, after one of them was requeued
\* or while an earlier batch's result arrives
C5_Witness ==
    /\ Len(rsp) = 2
    /\ rsp[1] # Empty
    /\ rsp[2] # Empty

\* C7: after check_sim has declared a server broken, the server (if tracked)
\* is unavailable and no Connexion of that server is left in conn_list.
C7_BrokenServerDiscarded ==
    [][(pcRun = "check" /\ pcRun' # "check") =>
          \A s \in BrokenServers :
              /\ s \in DOMAIN cloud_state' => ~cloud_state'[s].status
              /\ \A i \in 1..Len(conn_list') : conn_list'[i].server_id # s]_vars

\* C8: once a batch is enqueued, each of its requests whose result is not yet
\* in the response list is in the request queue or in some in-flight list.
StoredResult(k) ==
    k + 1 <= Len(rsp) /\ rsp[k + 1] = [batch |-> batches, index |-> k]
Queued(k) ==
    \E i \in 1..Len(rqt) : rqt[i].batch = batches /\ rqt[i].index = k
Tracking(k) ==
    \E s \in DOMAIN results : \E i \in 1..Len(results[s]) :
        results[s][i].batch = batches /\ results[s][i].index = k
C8_NoWorkDropped ==
    (pcMain \in {"fill", "test", "scan"}) =>
        \A k \in 0..(simLocal.sim_n - 1) : StoredResult(k) \/ Queued(k) \/ Tracking(k)

\* C6: check_sim, for every server with an expired or errored in-flight
\* simulation: the request queue grows by exactly the number of in-flight
\* simulations of those servers, every request appended has its callback
\* cleared, and the servers are absent from self.results afterwards.
RECURSIVE SumLen(_, _)
SumLen(res, S) ==
    IF S = {} THEN 0
    ELSE LET s == CHOOSE t \in S : TRUE IN Len(res[s]) + SumLen(res, S \ {s})

BrokenBefore == {s \in DOMAIN unitOp.results : IsBroken(unitOp.results[s], calls)}

C6_CheckSimRequeues ==
    unitOp.op = "check_sim" =>
        /\ Len(rqt) = Len(unitOp.rqt) + SumLen(unitOp.results, BrokenBefore)
        /\ SubSeq(rqt, 1, Len(unitOp.rqt)) = unitOp.rqt
        /\ \A i \in (Len(unitOp.rqt) + 1)..Len(rqt) : rqt[i].callback = 0
        /\ BrokenBefore \cap DOMAIN results = {}

\* a server with two in-flight simulations, one of them expired, was requeued
C6_Witness ==
    /\ unitOp.op = "check_sim"
    /\ \E s \in BrokenBefore :
         /\ Len(unitOp.results[s]) = 2
         /\ \E j \in 1..2 : calls[unitOp.results[s][j].callback].status = "pending"
    /\ Len(rqt) = Len(unitOp.rqt) + 2

\* C9: __select_candidate returns a tracked available server whose thread
\* count is minimal among the available tracked servers, and 0 exactly when
\* no tracked server is available.
Available(cs) == {s \in DOMAIN cs : cs[s].status}

C9_SelectsLeastLoadedAvailable ==
    unitOp.op = "select" =>
        /\ (server_hash = 0) <=> (Available(cloud_state) = {})
        /\ server_hash # 0 =>
              /\ server_hash \in Available(cloud_state)
              /\ \A t \in Available(cloud_state) :
                    cloud_state[server_hash].nb_threads <= cloud_state[t].nb_threads

\* the spec's example: counts {A: 2, B: 0, C: 1}, all available, selects B
C9_Witness ==
    /\ unitOp.op = "select"
    /\ DOMAIN cloud_state = {1, 2, 3}
    /\ \A s \in 1..3 : cloud_state[s].status
    /\ cloud_state[1].nb_threads = 2
    /\ cloud_state[2].nb_threads = 0
    /\ cloud_state[3].nb_threads = 1
    /\ server_hash = 2

\* C10: __refresh_cloud_state adds a server to cloud_state only when the
\* request queue is not empty, and an added server is available with
\* nb_threads 0.
AddedServers == DOMAIN cloud_state \ DOMAIN unitOp.cloud_state

C10_AddsOnlyWhenPending ==
    unitOp.op = "refresh" =>
        \A s \in AddedServers :
            /\ Len(unitOp.rqt) > 0
            /\ cloud_state[s] = [status |-> TRUE, nb_threads |-> 0]

\* a discovered server was added while a request was pending
C10_Witness ==
    /\ unitOp.op = "refresh"
    /\ AddedServers # {}
    /\ unitOp.rqt # <<>>

\* C11: after __refresh_cloud_state every server of cloud_state was reported
\* by the discovery just made; after a failed discovery the server list and
\* cloud_state are both empty.
C11_CloudWithinDiscovery ==
    unitOp.op = "refresh" =>
        /\ DOMAIN cloud_state \subseteq unitOp.disc
        /\ unitOp.disc = {} => (server_list = {} /\ DOMAIN cloud_state = {})

\* a failed discovery emptied a cloud_state that tracked servers
C11_Witness ==
    /\ unitOp.op = "refresh"
    /\ unitOp.disc = {}
    /\ DOMAIN unitOp.cloud_state # {}
    /\ DOMAIN cloud_state = {}
    /\ server_list = {}

\* C12: the request that run removes from the queue after a successful send
\* is the request it has just sent (the last of the queue, which carries the
\* call created by that send).
C12_PopsWhatWasSent ==
    [][(pcRun = "update" /\ pcRun' = "loop") => Last(rqt).callback = Len(calls)]_vars

\* C13: once stop() has returned and until start() is called again, the
\* dispatch thread has halted and the terminated flag is true.
StopReturned == mng_stop /\ pcMain \notin {"join_stop", "join_int"}

C13_StoppedMeansTerminated ==
    StopReturned => (terminated /\ ~ThreadAlive)

\* C14: when simulate observes a user interrupt (observers are notified and
\* stop() is called), simulate eventually returns its response list (or the
\* model's budget of calls is used up, which says nothing about the program).
C14_InterruptedSimulateReturns ==
    (pcMain = "join_int") ~> (ret.kind = "list" \/ Len(calls) = LiveMaxCalls)

\* C15: simulate([]) on a client with nothing queued and nothing in flight
\* enters the poll loop only before its first poll, every poll ends the loop,
\* and the list returned is empty.
EmptyQuietCall == simLocal.sim_n = 0 /\ simLocal.quiet

C15_EmptyBatchReturnsAtOnce ==
    [][/\ (EmptyQuietCall /\ pcMain = "test" /\ pcMain' = "scan") =>
              simLocal.simulation_running
       /\ (EmptyQuietCall /\ pcMain = "scan" /\ pcMain' # "scan") =>
              ~simLocal'.simulation_running /\ rqt' = <<>>
       /\ (EmptyQuietCall /\ pcMain = "test" /\ pcMain' = "idle") =>
              ret'.val = <<>>]_vars

\* an empty batch, submitted after an earlier batch had completed, has made
\* its one poll and is about to return
C15_Witness ==
    /\ EmptyQuietCall
    /\ pcMain = "test"
    /\ ~simLocal.simulation_running
    /\ DOMAIN results # {}
    /\ batches = 2

\* C16: a step that adds, removes or replaces an element of the request
\* queue, the in-flight mapping, the connection list, the response list or
\* the cloud state is taken by a thread that holds the collection's lock: the
\* lock is free for the step to take and release, or the caller holds it and
\* the step is the caller's.
Members(q) == [i \in 1..Len(q) |-> [batch |-> q[i].batch, index |-> q[i].index]]

Connexions(cl) == [i \in 1..Len(cl) |-> cl[i].call]

HeldForStep(l) ==
    \/ mutex[l] = Free
    \/ mutex[l] = MainT /\ simLocal' # simLocal

SameRequest(a, b) == a.batch = b.batch /\ a.index = b.index

Uncompleted(r) == calls[r.callback].status = "pending"

C17_OnePlaceOnly ==
    pcRun # "update" =>
        \A s \in DOMAIN results : \A i \in 1..Len(results[s]) :
            Uncompleted(results[s][i]) =>
                /\ \A j \in 1..Len(rqt) : ~SameRequest(rqt[j], results[s][i])
                /\ \A t \in DOMAIN results \ {s} : \A j \in 1..Len(results[t]) :
                       ~SameRequest(results[t][j], results[s][i])

\* C18: when response_simulation notifies the observers of a response (the
\* step of its servicing thread that leads to the decrement), the response
\* list holds that response's result at the request's index.
HoldsResult(list, c) ==
    c.index + 1 <= Len(list) /\ list[c.index + 1] = ResultOf(c)

C18_NotifiedListHoldsResult ==
    [][\A h \in CallIds :
          (pcCb[h] = "idle" /\ pcCb'[h] = "dec") => HoldsResult(rsp', calls[h])]_vars

\* C19: a result that arrives for a server no longer in cloud_state changes
\* neither the response list, the in-flight mapping nor the cloud state, and
\* its servicing thread ends with the Connexion removed from conn_list; a
\* result that arrives for a server still in cloud_state has its servicing
\* thread end with both the Connexion and the call's in-flight entry removed.
Registered(cl, h) == \E i \in 1..Len(cl) : cl[i].call = h

TrackedCall(res, h) ==
    \E s \in DOMAIN res : \E i \in 1..Len(res[s]) : res[s][i].callback = h

Ended(p) == p \in {"done", "dead"}

C19_CallbackRemovesConnexion ==
    [][\A h \in CallIds :
          LET arrives == calls[h].status = "pending" /\ calls'[h].status = "ready"
              evicted == calls[h].server \notin DOMAIN cloud_state
              ends == ~Ended(pcCb[h]) /\ Ended(pcCb'[h]) /\ calls'[h].status = "ready"
          IN  /\ (arrives /\ evicted) =>
                    /\ pcCb'[h] = "close"
                    /\ UNCHANGED <<rsp, results, cloud_state>>
              /\ (pcCb[h] = "close" /\ ends) =>
                    /\ ~Registered(conn_list', h)
                    /\ UNCHANGED <<rsp, results, cloud_state>>
              /\ (pcCb[h] # "close" /\ ends) =>
                    /\ ~Registered(conn_list', h)
                    /\ ~TrackedCall(results', h)]_vars

\* C20: after Optimization.update is called with an interruption entry that
\* is the boolean True, the interruption flag is set, whatever other entries
\* the notification carries.
C20_InterruptionEntrySetsFlag ==
    (optOp.op = "update" /\ kwargs.has_interruption /\ IsBoolTrue(kwargs.interruption))
        => interruption

\* C21: once the interruption flag is True it stays True through every
\* update, eval_fct, conv_fct, notify, start and save call.
C21_InterruptionSticky ==
    [][interruption => interruption']_vars

\* the flag was set before the last call, which was not an update
C21_Witness ==
    /\ optOp.interruption
    /\ optOp.op \in {"eval_fct", "conv_fct", "notify", "start", "save"}
    /\ interruption

\* C22: an update that carries a res entry appends exactly one element to the
\* result list, and a later change that the notifier makes to an object it
\* passed changes no element of the result list.
C22_AppendsDefensiveCopy ==
    [][/\ (optOp'.op = "update" /\ kwargs'.has_res) =>
              Len(res_list') = Len(res_list) + 1
       /\ (objects' # objects) =>
              \A i \in 1..Len(res_list) :
                  ElementValue(res_list'[i], objects') = ElementValue(res_list[i], objects)]_vars

\* C23: a call of eval_fct leaves the result list empty and, when the
\* interruption flag was set, returns the zero score; a call of conv_fct made
\* when the flag was set returns True.
C23_CooperativeCancellation ==
    /\ optOp.op = "eval_fct" =>
          /\ res_list = <<>>
          /\ optOp.interruption => optOp.ret = "0."
    /\ (optOp.op = "conv_fct" /\ optOp.interruption) => optOp.ret = "True"

\* eval_fct was called on an interrupted optimizer that held results
C23_Witness ==
    /\ optOp.op = "eval_fct"
    /\ optOp.interruption
    /\ optOp.res_len > 0
    /\ optOp.ret = "0."
    /\ res_list = <<>>

\* the leg muscles whose connection-matrix row does not have one weight per
\* brain output
Mismatched(b) ==
    {m \in MuscleNames : Len(b.config.connection_matrix[m]) # Len(b.brain.state)}

\* the muscles of leg l that are updated when the mismatched ones are skipped
Matched(b, l) ==
    {i \in 1..Len(b.legs[l].muscles) : b.legs[l].muscles[i].name \notin Mismatched(b)}

\* C24: a tick whose brain-output vector differs in length from the
\* connection-matrix row of some leg muscle does not raise: one error is
\* logged for each such muscle, that muscle is left as it was, and every
\* other muscle of the leg is updated and counted in the leg's n_iter.
C24_MismatchLoggedNotRaised ==
    (bodyOp.op = "update" /\ Mismatched(body) # {}) =>
        /\ bodyOp.raised = "none"
        /\ bodyOp.errors = Cardinality(Mismatched(body))
        /\ \A l \in LegNames : \A i \in 1..Len(body.legs[l].muscles) :
               IF i \in Matched(body, l)
               THEN body.legs[l].muscles[i].n_iter
                        = bodyOp.before.legs[l].muscles[i].n_iter + 1
               ELSE body.legs[l].muscles[i] = bodyOp.before.legs[l].muscles[i]
        /\ \A l \in LegNames :
               body.legs[l].n_iter
                   = bodyOp.before.legs[l].n_iter + Cardinality(Matched(body, l))

\* C25: constructing a Body whose trunk object is absent from the host
\* world logs an error, sets active to False and returns a Body without
\* raising.
C25_AbsentTrunkNotFatal ==
    (bodyOp.op = "init" /\ "trunk" \notin scene.objects) =>
        /\ bodyOp.errors = 1
        /\ body.active = "False"
        /\ bodyOp.raised = "none"
        /\ body.status = "built"

\* the calls of the last tick that update a leg muscle, a trunk muscle
LegCalls ==
    {k \in 1..Len(bodyOp.trace) :
        bodyOp.trace[k].what = "muscle.update" /\ bodyOp.trace[k].part \in LegNames}

TrunkCalls ==
    {k \in 1..Len(bodyOp.trace) :
        bodyOp.trace[k].what = "muscle.update" /\ bodyOp.trace[k].part = "body"}

\* the dot product of a row of four weights with the four brain outputs
Dot4(row, out) ==
    row[1] * out[1] + row[2] * out[2] + row[3] * out[3] + row[4] * out[4]

\* C26: in a tick the brain is advanced first and once; every leg muscle is
\* updated with the dot product of its connection-matrix row and the brain
\* outputs as they are after that advance; the trunk muscles are updated
\* without a control signal, after the muscles of all four legs.
C26_BrainFirstDotProduct ==
    bodyOp.op = "update" =>
        /\ bodyOp.trace # <<>>
        /\ \A k \in 1..Len(bodyOp.trace) :
               (bodyOp.trace[k].what = "brain.update") = (k = 1)
        /\ body.brain.n_iter = bodyOp.before.brain.n_iter + 1
        /\ bodyOp.trace[1].brain = body.brain
        /\ \A k \in LegCalls :
               LET e == bodyOp.trace[k]
               IN  /\ e.brain = body.brain
                   /\ e.ctrl_sig = <<Dot4(body.config.connection_matrix[e.name],
                                          body.brain.state)>>
        /\ \A k \in TrunkCalls :
               /\ bodyOp.trace[k].ctrl_sig = <<>>
               /\ \A j \in LegCalls : j < k
        /\ bodyOp.raised = "none" =>
               /\ \A l \in LegNames : \A i \in 1..Len(body.legs[l].muscles) :
                      /\ Cardinality({k \in LegCalls :
                             /\ bodyOp.trace[k].part = l
                             /\ bodyOp.trace[k].name = body.legs[l].muscles[i].name}) = 1
                      /\ body.legs[l].muscles[i].ctrl_sig
                             = <<Dot4(body.config.connection_matrix[
                                          body.legs[l].muscles[i].name],
                                      body.brain.state)>>
               /\ Cardinality(TrunkCalls) = Len(body.muscles)
               /\ \A i \in 1..Len(body.muscles) : body.muscles[i].ctrl_sig = <<>>

\* a completed tick in which the brain moved to new outputs and a leg
\* muscle received a control signal other than zero
C26_Witness ==
    /\ bodyOp.op = "update"
    /\ bodyOp.raised = "none"
    /\ body.brain.state # bodyOp.before.brain.state
    /\ body.legs["l_ba"].muscles[1].ctrl_sig = <<8>>
    /\ TrunkCalls # {}

\* two rationals with positive denominators are equal
FracEq(x, y) == x.num * y.den = y.num * x.den

\* the power history is not empty and all its samples are P
ConstantPower(P) ==
    /\ body.powers # <<>>
    /\ \A k \in 1..Len(body.powers) : body.powers[k] = P

FracLess(x, y) == x.num * y.den < y.num * x.den

C29_TypeSpecificFunctionApplied ==
    fiberOp.op = "update_force" =>
        /\ fiber.cls = "SlowTwitchFiber" =>
               /\ fiber.yielding
                      = SlowSpecificFunction(
                            [fiber EXCEPT !.yielding = fiberOp.before.yielding]).value
               /\ fiberOp.specific = fiber.yielding
               /\ fiber.activation_frequency
                      = ActivationFrequency(fiber, fiber.yielding).activation_frequency
        /\ fiber.cls = "FastTwitchFiber" =>
               /\ fiber.sag
                      = FastSpecificFunction(
                            [fiber EXCEPT !.sag = fiberOp.before.sag]).value
               /\ fiberOp.specific = fiber.sag
               /\ fiber.activation_frequency
                      = ActivationFrequency(fiber, fiber.sag).activation_frequency
        /\ (fiberOp.specific = Val(1, 1)) = (fiber.cls = "Fiber")

\* the positions in the last tick's calls of the resets and of the updates
OscCalls(what) ==
    {k \in 1..Len(oscOp.trace) : oscOp.trace[k].what = what}

\* C30: a tick resets the accumulated synaptic input of both units before
\* it updates either, updates unit 0 and then unit 1, and leaves a state
\* vector of four elements: unit 0 exciting, unit 0 inhibiting, unit 1
\* exciting, unit 1 inhibiting.
C30_ResetThenUpdateInOrder ==
    oscOp.op = "update" =>
        /\ Len(oscOp.trace) = 4
        /\ \A i \in Units :
               /\ \E k \in OscCalls("reset_updates") : oscOp.trace[k].unit = i
               /\ \E k \in OscCalls("update") : oscOp.trace[k].unit = i
        /\ \A r \in OscCalls("reset_updates") : \A u \in OscCalls("update") : r < u
        /\ \A u \in OscCalls("update") :
               /\ oscOp.trace[u].unit = 0 => oscOp.trace[u].acc = <<0, 0>>
               /\ oscOp.trace[u].acc[oscOp.trace[u].unit + 1] = 0
        /\ \A j, k \in OscCalls("update") :
               j < k => oscOp.trace[j].unit < oscOp.trace[k].unit
        /\ Len(osc.state) = 4
        /\ osc.state = <<osc.neurons[1].exc_y, osc.neurons[1].inh_y,
                         osc.neurons[2].exc_y, osc.neurons[2].inh_y>>

\* a second tick, in which unit 0 accumulates the output unit 1 computed in
\* the first, and after which the four outputs differ by position
C30_Witness ==
    /\ oscOp.op = "update"
    /\ osc.n_iter = 2
    /\ osc.neurons[1].acc = 1
    /\ osc.state = <<1, 0, 0, 1>>

\* the step in which a dispatch ends with EOFError
DispatchEOF ==
    /\ Len(calls') = Len(calls) + 1
    /\ Last(calls').status = "eof"

\* C31: a dispatch that ends with an end-of-stream error leaves the request
\* last in the pending queue, leaves rqt_n, the thread counts and the
\* in-flight mapping as they were, clears server_dispo, and returns the
\* dispatch thread to its loop, where the same request is the next to be
\* dispatched.
C31_EOFLeavesRequestQueued ==
    [][DispatchEOF =>
          /\ rqt' = rqt
          /\ rqt # <<>>
          /\ Last(calls').batch = Last(rqt').batch
          /\ Last(calls').index = Last(rqt').index
          /\ Last(rqt').callback = Last(rqt).callback
          /\ rqt_n' = rqt_n
          /\ cloud_state' = cloud_state
          /\ results' = results
          /\ ~server_dispo'
          /\ pcRun' = "loop"]_vars

\* a request whose first dispatch ended with EOFError and which was
\* dispatched again, successfully
C31_Witness ==
    \E h1, h2 \in CallIds :
        /\ h1 < h2
        /\ calls[h1].status = "eof"
        /\ calls[h2].status = "pending"
        /\ calls[h1].batch = calls[h2].batch
        /\ calls[h1].index = calls[h2].index


\* the servers whose in-flight simulations were all neither expired nor in
\* error when check_sim started
HealthyBefore == {s \in DOMAIN unitOp.results : ~IsBroken(unitOp.results[s], calls)}

\* the requests check_sim appended to the queue
AppendedBy(before, after) == SubSeq(after, Len(before) + 1, Len(after))

ConnexionsOf(cl, s) == SelectSeq(cl, LAMBDA c : c.server_id = s)

\* C32: after check_sim, a server none of whose in-flight simulations was
\* expired or in error keeps its in-flight list, its cloud_state entry
\* (status and thread count) and its connections, and none of its
\* simulations has been appended to the request queue.
C32_HealthyServerUntouched ==
    unitOp.op = "check_sim" =>
        \A s \in HealthyBefore :
            /\ s \in DOMAIN results
            /\ results[s] = unitOp.results[s]
            /\ s \in DOMAIN unitOp.cloud_state =>
                   /\ s \in DOMAIN cloud_state
                   /\ cloud_state[s] = unitOp.cloud_state[s]
            /\ ConnexionsOf(conn_list, s) = ConnexionsOf(unitOp.conn_list, s)
            /\ Len(conn_list) = Len(unitOp.conn_list)
            /\ Len(rqt) >= Len(unitOp.rqt)
            /\ SubSeq(rqt, 1, Len(unitOp.rqt)) = unitOp.rqt
            /\ \A i \in 1..Len(AppendedBy(unitOp.rqt, rqt)) :
                   \A j \in 1..Len(unitOp.results[s]) :
                       AppendedBy(unitOp.rqt, rqt)[i].index # unitOp.results[s][j].index

\* check_sim ran with one healthy tracked server and one broken tracked
\* server: the broken one was requeued and dropped, the healthy one kept
C32_Witness ==
    /\ unitOp.op = "check_sim"
    /\ \E s \in HealthyBefore, b \in DOMAIN unitOp.results \ HealthyBefore :
        /\ s \in DOMAIN cloud_state
        /\ b \in DOMAIN cloud_state
        /\ b \notin DOMAIN results
        /\ results[s] # <<>>
        /\ Len(rqt) > Len(unitOp.rqt)
        /\ unitOp.conn_list[1].server_id = s


\* C33: whenever the request-queue lock is free, the counter rqt_n is the
\* length of the pending request queue.
C33_CounterIsQueueLength ==
    mutex["rqt"] = Free => rqt_n = Len(rqt)

\* a batch of two was enqueued by simulate, one request was dispatched and
\* popped, its call expired and check_sim put it back: the queue holds two
\* requests again and the counter is two
C33_Witness ==
    /\ mutex["rqt"] = Free
    /\ pcRun # "update"
    /\ Len(calls) = 1
    /\ Expired(calls[1])
    /\ Len(rqt) = 2
    /\ rqt_n = 2
    /\ rqt[2].index = calls[1].index
    /\ rqt[2].callback = 0


\* the locks thread t holds
HeldBy(t) == {l \in LockNames : mutex[l] = t}

CbDead(h) == pcCb[h] = "dead"

\* C35: no lock stays held by a thread that has ended: a servicing thread
\* whose callback raised holds none of the five locks.
C35_NoLockLeftHeld ==
    \A h \in CallIds : CbDead(h) => HeldBy(h) = {}

\* C35 (the case the claim names): the thread-count decrement never fails
\* with mutex_cloud_state held
C35_DecrementNeverFails ==
    \A h \in CallIds : mutex["cloud_state"] # h


\* the number of simulations self.results records for server s
Recorded(s) == IF s \in DOMAIN results THEN Len(results[s]) ELSE 0

\* no dispatch is between request_server and the pop, no servicing thread is
\* inside a callback, and none has ended with an exception
Quiescent ==
    /\ pcRun \in {"none", "loop", "check", "done"}
    /\ \A h \in CallIds : pcCb[h] \in {"idle", "done"}

\* C36: a tracked server's nb_threads is never negative and, when no
\* dispatch or callback is in progress, it is the number of simulations
\* recorded for that server in self.results.
C36_ThreadCountIsInFlight ==
    \A s \in DOMAIN cloud_state :
        /\ cloud_state[s].nb_threads >= 0
        /\ Quiescent => cloud_state[s].nb_threads = Recorded(s)

\* C36 (first half alone): nb_threads is never negative
C36_ThreadCountNonNegative ==
    \A s \in DOMAIN cloud_state : cloud_state[s].nb_threads >= 0

\* C36 (second half alone)
C36_ThreadCountMatchesWhenQuiescent ==
    Quiescent => \A s \in DOMAIN cloud_state : cloud_state[s].nb_threads = Recorded(s)


\* the request sent with call h is recorded in self.results
RecordedCall(h) ==
    \E s \in DOMAIN results : \E i \in 1..Len(results[s]) : results[s][i].callback = h

\* C37: every Connexion of conn_list belongs to a request that is in flight
\* (recorded in self.results), so conn_list is empty when self.results
\* records no request.
C37_NoStaleConnexion ==
    \A i \in 1..Len(conn_list) : RecordedCall(conn_list[i].call)

\* C37 (the failed attempt alone): a dispatch that ended with an error has
\* left no Connexion in conn_list
C37_FailedAttemptLeavesNoConnexion ==
    \A i \in 1..Len(conn_list) : calls[conn_list[i].call].status \notin {"eof", "failed"}

\* C37 (the broken server alone): the Connexions of a server that check_sim
\* has dropped from self.results are no longer listed
C37_BrokenServerLeavesNoConnexion ==
    \A i \in 1..Len(conn_list) :
        calls[conn_list[i].call].status \in {"expired", "error"} =>
            RecordedCall(conn_list[i].call)


\* C38: once the dispatch thread has been started and has ended, whether
\* by leaving its loop or by an exception re-raised from a dispatch, the
\* terminated flag is true.
C38_EndedLoopIsTerminated ==
    pcRun \in {"done", "dead"} => terminated

\* C38 (consequence): simulate is not left polling for a dispatch thread
\* that has died with requests still queued
C38_PollerReleasedWhenLoopDies ==
    ~(pcRun = "dead" /\ pcMain = "test" /\ rqt # <<>> /\ ~terminated /\ ~simLocal.to_over)


\* the positions of the last tick's trace where compute_power was called
PowerCalls == {k \in 1..Len(bodyOp.trace) : bodyOp.trace[k].what = "compute_power"}

\* the number of muscles of body b, legs and trunk
MuscleCount(b) ==
    SumSeq([k \in 1..Len(LegOrder) |-> Len(b.legs[LegOrder[k]].muscles)]) + Len(b.muscles)

\* C39: the power history has as many entries as the tick counter n_iter
\* says; a completed tick appends exactly one power sample, in a single
\* compute_power call made after every leg muscle and trunk muscle has been
\* updated, and adds one to n_iter; a tick that raises changes neither; and
\* when every tick completes, both equal the number of ticks started.
C39_OnePowerSamplePerTick ==
    /\ body.status = "built" => Len(body.powers) = body.n_iter
    /\ bodyOp.op = "update" =>
        IF bodyOp.raised = "none"
        THEN /\ body.n_iter = bodyOp.before.n_iter + 1
             /\ Len(body.powers) = Len(bodyOp.before.powers) + 1
             /\ SubSeq(body.powers, 1, Len(bodyOp.before.powers)) = bodyOp.before.powers
             /\ PowerCalls = {Len(bodyOp.trace)}
             /\ Cardinality(LegCalls \cup TrunkCalls) = MuscleCount(body)
             /\ \A k \in LegCalls \cup TrunkCalls : k < Len(bodyOp.trace)
        ELSE /\ body.n_iter = bodyOp.before.n_iter
             /\ body.powers = bodyOp.before.powers
             /\ PowerCalls = {}
    /\ (body.status = "built" /\ Mismatched(body) = {}) =>
           body.n_iter = body.brain.n_iter

\* two ticks have completed: two power samples, n_iter = 2
C39_Witness ==
    /\ bodyOp.op = "update"
    /\ bodyOp.raised = "none"
    /\ body.n_iter = 2
    /\ Len(body.powers) = 2
    /\ body.brain.n_iter = 2
    /\ MuscleCount(body) = 6

=============================================================================
